---- MODULE Spec2Model ----
(***************************************************************************)
(* A model of mb-loader: the bootload engine of src/index.js               *)
(* (ModbusBootloader), the target/space functions of                       *)
(* src/lib/BootloaderTarget.js, the Intel HEX reader of src/lib/intelhex.js *)
(* and the CRC of src/lib/crc16.js.                                        *)
(*                                                                         *)
(* The engine is a chain of promise reactions.  One action of the model is *)
(* one run-to-completion turn of the JavaScript event loop: the call of    *)
(* start() or abort() by the application, the completion of a transaction  *)
(* by the transport (options.onDone) together with every promise reaction  *)
(* it triggers up to the next suspension point, the select-delay timer,    *)
(* the end of the HEX file read.  Imperative code is written as operators  *)
(* that take the world w (a record of all the variables) and return the    *)
(* world after the call; an action commits the result.                     *)
(*                                                                         *)
(* JavaScript values: arrays are sequences read with At (0-based);         *)
(* undefined/null is Undefined, NaN is NaN.                                *)
(***************************************************************************)
EXTENDS Integers, Sequences, FiniteSets, TLC

\* ------------------------------------------------------------ bounds
MaxSessions == 2
MaxEnquireRetries == 1
MaxDataRetries == 1
MaxDefaultRetries == 1
MaxFileBlocks == 2
\* requests that time out and are transmitted again, in one session
MaxRetransmits == 2
\* targets constructed by the application
MaxConstructions == 2
\* files loaded into one HexFile object, and lines read from a file
MaxLoads == 2
MaxLines == 2

\* ------------------------------------------------------------ constants
BL_OP_ENQUIRE == 240
BL_OP_SELECT == 243
BL_OP_ERASE == 248
BL_OP_DATA == 249
BL_OP_VERIFY == 250
BL_OP_FINISH == 253
BL_OP_ACK == 0
BL_OP_NACK == 255

Undefined == -1
NaN == -2

\* arr[i] of JavaScript: 0-based, undefined outside the array
At(arr, i) == IF i >= 0 /\ i < Len(arr) THEN arr[i + 1] ELSE Undefined

\* a * b and a + b of JavaScript on numbers that may be undefined or NaN
JsMul(a, b) == IF a < 0 \/ b < 0 THEN NaN ELSE a * b
JsAdd(a, b) == IF a = NaN \/ b = NaN \/ a = Undefined \/ b = Undefined THEN NaN ELSE a + b

\* ------------------------------------------------------------ bit operations
\* a ^ b and a & b of JavaScript on non-negative integers
RECURSIVE BitXor(_, _)
BitXor(a, b) ==
  IF a = 0 THEN b
  ELSE IF b = 0 THEN a
  ELSE (((a % 2) + (b % 2)) % 2) + (2 * BitXor(a \div 2, b \div 2))

\* (v >> (8*k)) & 0xFF for a 32-bit signed v
ByteOf(v, k) == (v \div (256 ^ k)) % 256

\* ------------------------------------------------------------ src/lib/crc16.js
CRC16_GEN_POLY == 40961
CRC_TABLE_SIZE == 256

RECURSIVE crcTableEntry(_, _, _)
crcTableEntry(crc, c, j) ==
  IF j >= 8 THEN crc
  ELSE crcTableEntry(IF BitXor(crc, c) % 2 = 1
                       THEN BitXor(crc \div 2, CRC16_GEN_POLY)
                       ELSE crc \div 2,
                     c \div 2, j + 1)

CRCTable == [i \in 0 .. (CRC_TABLE_SIZE - 1) |-> crcTableEntry(0, i, 0)]

\* CRC.update(crc, data)
update(crc, data) == BitXor(crc \div 256, CRCTable[BitXor(crc, (data % 65536)) % 256])

RECURSIVE updateAll(_, _, _)
\* bytes.forEach(updateByte), from position k
updateAll(crc, bytes, k) ==
  IF k > Len(bytes) THEN crc ELSE updateAll(update(crc, bytes[k]), bytes, k + 1)

RECURSIVE updateFill(_, _, _)
\* n times CRC.update(crc, byte)
updateFill(crc, byte, n) ==
  IF n <= 0 THEN crc ELSE updateFill(update(crc, byte), byte, n - 1)

\* ------------------------------------------------------------ block store
\* The blocks array of HexFile is a sparse JavaScript array: a function from
\* the indices that are elements to cells.  A cell is a block (an array of
\* bytes) or the value undefined (an element assigned undefined is still
\* visited by forEach, a hole is not).
EMPTY_VALUE == 255
BlockCell(bytes) == [defined |-> TRUE, bytes |-> bytes]
UndefinedCell == [defined |-> FALSE, bytes |-> <<>>]
NoBlocks == [i \in {} |-> UndefinedCell]
\* blocks[i]
GetBlock(blocks, i) == IF i \in DOMAIN blocks THEN blocks[i] ELSE UndefinedCell
\* blocks[i] = cell
SetBlock(blocks, i, cell) ==
  [j \in (DOMAIN blocks) \cup {i} |-> IF j = i THEN cell ELSE blocks[j]]

\* ------------------------------------------------------------ src/lib/BootloaderTarget.js
\* block.slice(i, i + 3) for each i = 0, 4, 8, ...
RECURSIVE stride3(_, _)
stride3(block, i) ==
  IF i >= Len(block) THEN <<>>
  ELSE SubSeq(block, i + 1, IF i + 3 <= Len(block) THEN i + 3 ELSE Len(block))
       \o stride3(block, i + 4)

blockAddress(index, block, addressing, addressOffset) ==
  ((index * Len(block)) \div addressing) + addressOffset

addressBytes(address) ==
  << ByteOf(address, 3), ByteOf(address, 2), ByteOf(address, 1), ByteOf(address, 0) >>

\* a faulty PIC24 send filter: every byte of the block is sent
sendHmiAppFilterWhole(index, block, addressing, addressOffset) ==
  addressBytes(blockAddress(index, block, addressing, addressOffset)) \o block

sendHmiAppFilter(index, block, addressing, addressOffset) ==
  addressBytes(blockAddress(index, block, addressing, addressOffset)) \o stride3(block, 0)

sendSimpleFilter(index, block, addressing, addressOffset) ==
  addressBytes(blockAddress(index, block, addressing, addressOffset)) \o block

isPic24BlockEmpty(cell) ==
  IF ~cell.defined THEN TRUE
  ELSE \A i \in 0 .. (Len(cell.bytes) - 1) :
         ((i % 4) = 0) =>
           /\ At(cell.bytes, i) = 255
           /\ At(cell.bytes, i + 1) = 255
           /\ At(cell.bytes, i + 2) = 255

\* a faulty emptiness test: the fourth byte of every four is not looked at
isSimpleBlockEmptyStride(cell) ==
  IF ~cell.defined THEN TRUE
  ELSE \A i \in 1 .. Len(cell.bytes) : ((i % 4) # 0) => cell.bytes[i] = 255

isSimpleBlockEmpty(cell) ==
  IF ~cell.defined THEN TRUE
  ELSE \A i \in 1 .. Len(cell.bytes) : cell.bytes[i] = 255

computeHmiAppChecksum(start, end, blockSize, blocks) == 0

RECURSIVE simpleChecksumFrom(_, _, _, _, _)
simpleChecksumFrom(crc, i, end, blockSize, blocks) ==
  IF end = NaN \/ ~(i < end) THEN crc
  ELSE LET cell == GetBlock(blocks, i \div blockSize)
       IN simpleChecksumFrom(IF ~cell.defined
                               THEN updateFill(crc, 255, blockSize)
                               ELSE updateAll(crc, cell.bytes, 1),
                             i + blockSize, end, blockSize, blocks)

computeSimpleChecksum(start, end, blockSize, blocks) ==
  simpleChecksumFrom(65535, start, end, blockSize, blocks)

RECURSIVE walkedFrom(_, _, _)
\* the block indices the loop of the checksum functions looks at:
\* for (i = start; i < end; i += blockSize) Math.floor(i / blockSize)
walkedFrom(i, end, blockSize) ==
  IF end = NaN \/ ~(i < end) THEN {}
  ELSE {i \div blockSize} \cup walkedFrom(i + blockSize, end, blockSize)

RECURSIVE noFillChecksumFrom(_, _, _, _, _)
noFillChecksumFrom(crc, i, end, blockSize, blocks) ==
  IF end = NaN \/ ~(i < end) THEN crc
  ELSE LET cell == GetBlock(blocks, i \div blockSize)
       IN noFillChecksumFrom(IF cell.defined /\ ~isSimpleBlockEmpty(cell)
                               THEN updateAll(crc, cell.bytes, 1)
                               ELSE crc,
                             i + blockSize, end, blockSize, blocks)

computeSimpleChecksumNoFill(start, end, blockSize, blocks) ==
  noFillChecksumFrom(65535, start, end, blockSize, blocks)

\* excludeBlocks of a space: undefined, an array of ranges, or a single range
\* object (which has no length)
NoExclude == [kind |-> "undefined", ranges |-> <<>>]

RECURSIVE excludeRange(_, _, _)
\* for (i = start; i <= end; i++) blocks[i] = undefined
excludeRange(blocks, i, end) ==
  IF i > end THEN blocks ELSE excludeRange(SetBlock(blocks, i, UndefinedCell), i + 1, end)

RECURSIVE excludeRanges(_, _, _)
excludeRanges(blocks, ranges, k) ==
  IF k > Len(ranges) THEN blocks
  ELSE excludeRanges(IF ranges[k].exclude
                       THEN excludeRange(blocks, ranges[k].start, ranges[k].end)
                       ELSE blocks,
                     ranges, k + 1)

loadSimpleFilter(blocks, space) ==
  IF space.excludeBlocks.kind = "array" /\ Len(space.excludeBlocks.ranges) > 0
    THEN excludeRanges(blocks, space.excludeBlocks.ranges, 1)
    ELSE blocks

loadHmiAppFilter(blocks, space) == blocks

\* the function values a space holds, by name
callLoadFilter(space, blocks) ==
  CASE space.loadFilter = "loadSimpleFilter" -> loadSimpleFilter(blocks, space)
    [] space.loadFilter = "loadHmiAppFilter" -> loadHmiAppFilter(blocks, space)
    [] OTHER -> blocks

callSendFilter(space, index, block, addressing, addressOffset) ==
  IF space.sendFilter = "sendHmiAppFilter"
    THEN sendHmiAppFilter(index, block, addressing, addressOffset)
    ELSE sendSimpleFilter(index, block, addressing, addressOffset)

callChecksum(space, start, end, blockSize, blocks) ==
  CASE space.checksum = "computeHmiAppChecksum" -> computeHmiAppChecksum(start, end, blockSize, blocks)
    [] space.checksum = "computeSimpleChecksumNoFill" -> computeSimpleChecksumNoFill(start, end, blockSize, blocks)
    [] OTHER -> computeSimpleChecksum(start, end, blockSize, blocks)

callBlockIsEmpty(space, cell) ==
  IF space.blockIsEmpty = "isPic24BlockEmpty" THEN isPic24BlockEmpty(cell) ELSE isSimpleBlockEmpty(cell)


\* ------------------------------------------------------------ errors
\* An Error (or a rejection reason): its message and the value appended to it
Err(msg) == [msg |-> msg, arg |-> Undefined]
ErrArg(msg, arg) == [msg |-> msg, arg |-> arg]
NoErr == Err("")

\* ------------------------------------------------------------ src/lib/intelhex.js
\* Intel Hex record types
DATA == 0
END_OF_FILE == 1
EXT_SEGMENT_ADDR == 2
START_SEGMENT_ADDR == 3
EXT_LINEAR_ADDR == 4
START_LINEAR_ADDR == 5

\* A line of text is a sequence of characters.  A character is a hex digit
\* (its value, 0 .. 15), the colon, a blank, or some other character.
Colon == 16
Blank == 17
OtherChar == 18
IsHexDigit(ch) == ch >= 0 /\ ch <= 15

\* parseInt(two characters, 16): NaN unless the first is a hex digit; a
\* second character that is no hex digit ends the number
parseInt16(a, b) ==
  IF ~IsHexDigit(a) THEN NaN
  ELSE IF b # Undefined /\ IsHexDigit(b) THEN (16 * a) + b
  ELSE a

RECURSIVE hexToBytesFrom(_, _)
hexToBytesFrom(hex, c) ==
  IF c >= Len(hex) THEN <<>>
  ELSE <<parseInt16(At(hex, c), At(hex, c + 1))>> \o hexToBytesFrom(hex, c + 2)

hexToBytes(hex) == hexToBytesFrom(hex, 0)

\* arr.slice(from, to), 0 <= from
slice(arr, from, to) ==
  LET t == IF to < 0 THEN (IF Len(arr) + to < 0 THEN 0 ELSE Len(arr) + to)
           ELSE IF to > Len(arr) THEN Len(arr) ELSE to
  IN IF from >= t THEN <<>> ELSE SubSeq(arr, from + 1, t)

RECURSIVE trimLeft(_)
trimLeft(line) ==
  IF Len(line) > 0 /\ line[1] = Blank THEN trimLeft(Tail(line)) ELSE line

RECURSIVE trimRight(_)
trimRight(line) ==
  IF Len(line) > 0 /\ line[Len(line)] = Blank
    THEN trimRight(SubSeq(line, 1, Len(line) - 1))
    ELSE line

\* line.trim()
trim(line) == trimRight(trimLeft(line))

RECURSIVE sumBytes(_, _, _)
\* bytes.forEach: sum = (sum + byte) & 0xFF; NaN & 0xFF is 0
sumBytes(sum, bytes, k) ==
  IF k > Len(bytes) THEN sum
  ELSE sumBytes(IF bytes[k] = NaN THEN 0 ELSE (sum + bytes[k]) % 256, bytes, k + 1)

\* parseHexLine(line): [ok, record] or [~ok, err]
parseHexLine(line, linesInFile) ==
  LET bytes == hexToBytes(slice(line, 1, Len(line)))
  IN IF Len(bytes) > 4
       THEN LET count == bytes[1]
                sum   == sumBytes(0, bytes, 1)
                data  == slice(bytes, 4, Len(bytes) - 1)
            IN IF count # Len(data) \/ sum # 0
                 THEN [ok |-> FALSE,
                       err |-> ErrArg("Invalid data in HEX file line: ", linesInFile),
                       record |-> [count |-> 0, address |-> 0, type |-> 0, data |-> <<>>]]
                 ELSE [ok |-> TRUE, err |-> NoErr,
                       record |-> [count |-> count,
                                   address |-> JsAdd(JsMul(bytes[2], 256), bytes[3]),
                                   type |-> bytes[4],
                                   data |-> data]]
       ELSE [ok |-> FALSE,
             err |-> ErrArg("Invalid HEX file line: ", linesInFile),
             record |-> [count |-> 0, address |-> 0, type |-> 0, data |-> <<>>]]

\* arr.splice(start, deleteCount, ...items)
splice(arr, start, deleteCount, items) ==
  LET L  == Len(arr)
      s  == IF start = NaN THEN 0
            ELSE IF start < 0 THEN (IF L + start < 0 THEN 0 ELSE L + start)
            ELSE IF start > L THEN L ELSE start
      dc == IF deleteCount < 0 THEN 0
            ELSE IF deleteCount > L - s THEN L - s ELSE deleteCount
  IN SubSeq(arr, 1, s) \o items \o SubSeq(arr, s + dc + 1, L)

\* The HexFile object: [extendedAddress, blocks, blockSize, linesInFile, fillValue]
NewHexFile ==
  [extendedAddress |-> 0, blocks |-> NoBlocks, blockSize |-> 0,
   linesInFile |-> 0, fillValue |-> EMPTY_VALUE]

blockUpdate(hex, blockIndex, offset, bytes) ==
  LET cur == GetBlock(hex.blocks, blockIndex)
      old == IF cur.defined THEN cur.bytes ELSE [i \in 1 .. hex.blockSize |-> hex.fillValue]
  IN [hex EXCEPT !.blocks =
        SetBlock(hex.blocks, blockIndex, BlockCell(splice(old, offset, Len(bytes), bytes)))]

\* a % b of JavaScript: the sign of the dividend
JsRem(a, b) == IF a >= 0 THEN a % b ELSE 0 - ((0 - a) % b)

addData(hex, record) ==
  LET effectiveAddress == JsAdd(hex.extendedAddress, record.address)
  IN IF effectiveAddress = NaN
       THEN blockUpdate(hex, NaN, NaN, record.data)
       ELSE LET block     == effectiveAddress \div hex.blockSize
                offset    == JsRem(effectiveAddress, hex.blockSize)
                available == hex.blockSize - offset
            IN IF available < Len(record.data)
                 THEN blockUpdate(blockUpdate(hex, block, offset, slice(record.data, 0, available)),
                                  block + 1, 0, slice(record.data, available, Len(record.data)))
                 ELSE blockUpdate(hex, block, offset, record.data)

\* v << n of JavaScript for a byte v (undefined and NaN shift as 0); the
\* result is a signed 32-bit value
shiftLeft(v, n) ==
  IF v < 0 THEN 0
  ELSE IF n = 24 /\ v >= 128 THEN (v - 256) * (2 ^ 24)
  ELSE v * (2 ^ n)

\* processRecord(record): [ok, hex] or [~ok, err]
processRecord(hex, record) ==
  CASE record.type = DATA -> [ok |-> TRUE, err |-> NoErr, hex |-> addData(hex, record)]
    [] record.type = END_OF_FILE -> [ok |-> TRUE, err |-> NoErr, hex |-> hex]
    [] record.type = EXT_SEGMENT_ADDR ->
         [ok |-> FALSE, err |-> ErrArg("Unhandled HEX record ", EXT_SEGMENT_ADDR), hex |-> hex]
    [] record.type = START_SEGMENT_ADDR ->
         [ok |-> FALSE, err |-> ErrArg("Unhandled HEX record ", START_SEGMENT_ADDR), hex |-> hex]
    [] record.type = EXT_LINEAR_ADDR ->
         [ok |-> TRUE, err |-> NoErr,
          hex |-> [hex EXCEPT !.extendedAddress =
                     shiftLeft(At(record.data, 0), 24) + shiftLeft(At(record.data, 1), 16)]]
    [] record.type = START_LINEAR_ADDR ->
         [ok |-> FALSE, err |-> ErrArg("Unhandled HEX record ", START_LINEAR_ADDR), hex |-> hex]
    [] OTHER -> [ok |-> FALSE, err |-> ErrArg("Unknown Record type: ", record.type), hex |-> hex]

\* a faulty 'line' handler: the text of the last error is kept, not the first
onLineLastError(st, rawLine) ==
  LET hex1 == [st.hex EXCEPT !.linesInFile = @ + 1]
      line == trim(rawLine)
      st1  == [st EXCEPT !.hex = hex1]
  IN IF Len(line) = 0 THEN st1
     ELSE LET parsed == parseHexLine(line, hex1.linesInFile)
          IN IF ~parsed.ok
               THEN [st1 EXCEPT !.errorText = parsed.err, !.errors = @ + 1]
               ELSE IF parsed.record.type = END_OF_FILE
                 THEN [st1 EXCEPT !.complete = 1]
                 ELSE LET done == processRecord(hex1, parsed.record)
                      IN IF done.ok THEN [st1 EXCEPT !.hex = done.hex]
                         ELSE [st1 EXCEPT !.errorText = done.err, !.errors = @ + 1]

\* the 'line' handler of loadFile; st = [hex, errors, complete, errorText]
onLine(st, rawLine) ==
  LET hex1 == [st.hex EXCEPT !.linesInFile = @ + 1]
      line == trim(rawLine)
      st1  == [st EXCEPT !.hex = hex1]
  IN IF Len(line) = 0 THEN st1
     ELSE LET parsed == parseHexLine(line, hex1.linesInFile)
          IN IF ~parsed.ok
               THEN [st1 EXCEPT !.errorText = IF @ = NoErr THEN parsed.err ELSE @,
                                !.errors = @ + 1]
               ELSE IF parsed.record.type = END_OF_FILE
                 THEN [st1 EXCEPT !.complete = 1]
                 ELSE LET done == processRecord(hex1, parsed.record)
                      IN IF done.ok THEN [st1 EXCEPT !.hex = done.hex]
                         ELSE [st1 EXCEPT !.errorText = IF @ = NoErr THEN done.err ELSE @,
                                          !.errors = @ + 1]

RECURSIVE readLines(_, _, _)
readLines(st, lines, k) ==
  IF k > Len(lines) THEN st ELSE readLines(onLine(st, lines[k]), lines, k + 1)

\* a faulty done(): a file without END_OF_FILE record is taken as complete
loadDoneLenient(st) ==
  IF st.errors > 0
    THEN [ok |-> FALSE, blocks |-> NoBlocks,
          err |-> [msg |-> "Error(s) occured reading the HEX file: " \o st.errorText.msg,
                   arg |-> st.errorText.arg]]
    ELSE [ok |-> TRUE, blocks |-> st.hex.blocks, err |-> NoErr]

\* done() of loadFile: how the promise settles
loadDone(st) ==
  IF st.errors > 0
    THEN [ok |-> FALSE, blocks |-> NoBlocks,
          err |-> [msg |-> "Error(s) occured reading the HEX file: " \o st.errorText.msg,
                   arg |-> st.errorText.arg]]
  ELSE IF st.complete = 1
    THEN [ok |-> TRUE, blocks |-> st.hex.blocks, err |-> NoErr]
  ELSE [ok |-> FALSE, blocks |-> NoBlocks, err |-> Err("Incomplete file")]

\* loadFile(filename, blockSize) on a HexFile object, for a file that holds
\* `lines` (readable) or cannot be read: the settlement of its promise and
\* the HexFile object afterwards
loadFile(hex, file, blockSize) ==
  LET hex0 == [hex EXCEPT !.blockSize = blockSize, !.blocks = NoBlocks, !.linesInFile = 0]
      st0  == [hex |-> hex0, errors |-> 0, complete |-> 0, errorText |-> NoErr]
      st   == IF file.readable
                THEN readLines(st0, file.lines, 1)
                ELSE [st0 EXCEPT !.errors = 1, !.errorText = Err("File read error")]
  IN [settled |-> loadDone(st), hex |-> st.hex]


VARIABLES
  pc,         \* where the promise chain of start() is suspended
  config,     \* the arguments of the current start(): file, target, space
  me,         \* the fields of the ModbusBootloader object
  master,     \* the transport: its configured defaults
  txs,        \* the transport's Transaction objects of this session, by id
  awaiting,   \* the transaction whose promise the chain is waiting on (0: none)
  blockIdx,   \* the loop index of sendBlocks
  status,     \* 'status' events emitted since the last start()
  progress,   \* 'progress' events emitted since the last start()
  result,     \* the settlement of the promise returned by start()
  loader,     \* the settlement of the loader promise of importFile()
  sessions    \* how many times start() was called

\* the state of the library modules, outside any session
VARIABLES
  TARGET_DEFAULTS,  \* the TARGET_DEFAULTS object of BootloaderTarget.js
  built,            \* the space and target constructed last, with what was given
  reader,           \* a HexFile object, the load in progress and the line read last
  imported          \* the last import of a block store on its own: what went in and out

engine == <<pc, config, me, master, txs, awaiting, blockIdx, status, progress, result, loader, sessions>>

library == <<TARGET_DEFAULTS, built, reader, imported>>

vars == <<engine, library>>

\* ------------------------------------------------------------ the world
\* All the variables as one record, for the operators that model code; rej
\* is the reason of a rejected promise (or a thrown error) on its way down
\* the promise chain, NoErr when there is none.
World ==
  [pc |-> pc, config |-> config, me |-> me, master |-> master, txs |-> txs,
   awaiting |-> awaiting, blockIdx |-> blockIdx, status |-> status,
   progress |-> progress, result |-> result, loader |-> loader, rej |-> NoErr]

Commit(w) ==
  /\ pc' = w.pc
  /\ config' = w.config
  /\ me' = w.me
  /\ txs' = w.txs
  /\ awaiting' = w.awaiting
  /\ blockIdx' = w.blockIdx
  /\ status' = w.status
  /\ progress' = w.progress
  /\ result' = w.result
  /\ loader' = w.loader
  /\ UNCHANGED library

throw(w, err) == [w EXCEPT !.rej = err]

\* ------------------------------------------------------------ the transport
\* The master (@csllc/cs-modbus) is given to the engine; the engine uses
\* master.command(), the Transaction it returns (cancel()) and the onDone
\* callback.  A Transaction transmits its request, retransmits it after each
\* timeout while failures <= maxRetries, and completes exactly once: with the
\* response, with a ResponseTimeoutError, with another error, or, after
\* cancel(), with an error and no further transmission.
NoOptions == [timeout |-> Undefined, maxRetries |-> Undefined]

\* master.command(op, data, options): the Transaction is created and its
\* request transmitted
masterCommand(w, op, data, options) ==
  [w EXCEPT !.txs = Append(@,
     [op |-> op, data |-> data,
      timeout |-> IF options.timeout = Undefined
                    THEN w.master.defaultTimeout ELSE options.timeout,
      maxRetries |-> IF options.maxRetries = Undefined
                       THEN w.master.defaultMaxRetries ELSE options.maxRetries,
      failures |-> 0, sent |-> 1, state |-> "sent", cancelCalls |-> 0,
      response |-> <<>>])]

\* transaction.cancel()
cancel(txns, t) ==
  [txns EXCEPT ![t].cancelCalls = @ + 1,
              ![t].state = IF @ = "sent" THEN "cancelled" ELSE @]

\* ------------------------------------------------------------ src/index.js
\* me.emit('status', event); ab: a 'status' listener of the application
\* calls abort() on this event (see abort below)
emit(w, event) == [w EXCEPT !.status = Append(@, event)]

\* a faulty removeTransaction: the completed transaction stays in the list
removeTransactionKept(transactions, t) == transactions

\* removeTransaction(transaction)
removeTransaction(transactions, t) ==
  LET idx == {i \in 1 .. Len(transactions) : transactions[i] = t}
  IN IF idx = {} THEN transactions
     ELSE LET i == CHOOSE k \in idx : \A j \in idx : k <= j
          IN SubSeq(transactions, 1, i - 1) \o SubSeq(transactions, i + 1, Len(transactions))

\* a faulty command: the aborting flag is not looked at
commandUnguarded(w, op, data, options) ==
  LET w1 == masterCommand(w, op, data, options)
  IN [w1 EXCEPT !.me.transactions = Append(@, Len(w1.txs)),
                !.awaiting = Len(w1.txs)]

\* command(op, data, options): the promise is rejected at once when aborting,
\* otherwise the command is handed to the master and the transaction saved
command(w, op, data, options) ==
  IF w.me.aborting
    THEN throw(w, Err("Aborted by user"))
    ELSE LET w1 == masterCommand(w, op, data, options)
         IN [w1 EXCEPT !.me.transactions = Append(@, Len(w1.txs)),
                       !.awaiting = Len(w1.txs)]

RECURSIVE cancelFrom(_, _, _)
\* for (i = transactions.length - 1; i >= 0; i--) transactions[i].cancel()
cancelFrom(txns, transactions, i) ==
  IF i < 1 THEN txns ELSE cancelFrom(cancel(txns, transactions[i]), transactions, i - 1)

\* a faulty abort: the aborting flag is not looked at
abortUnguarded(w) ==
  LET w1 == [w EXCEPT !.me.aborting = TRUE]
      w2 == IF Len(w1.me.transactions) > 0
              THEN [w1 EXCEPT !.txs = cancelFrom(@, w1.me.transactions,
                                                 Len(w1.me.transactions))]
              ELSE w1
  IN emit(w2, "Aborted")

\* abort()
abort(w) ==
  IF ~w.me.aborting
    THEN LET w1 == [w EXCEPT !.me.aborting = TRUE]
             w2 == IF Len(w1.me.transactions) > 0
                     THEN [w1 EXCEPT !.txs = cancelFrom(@, w1.me.transactions,
                                                        Len(w1.me.transactions))]
                     ELSE w1
         IN emit(w2, "Aborted")
    ELSE w

\* an emit whose listener may call abort()
emitTo(w, event, ab) == IF ab THEN abort(emit(w, event)) ELSE emit(w, event)

\* a faulty .catch of start(): reject(err) without abort()
startCatchNoAbort(w, err) ==
  [w EXCEPT !.result = IF @.state = "pending"
                         THEN [state |-> "rejected", err |-> err] ELSE @,
            !.pc = "settled", !.awaiting = 0, !.rej = NoErr]

\* the .catch of start(): abort(), then reject(err)
startCatch(w, err) ==
  LET w1 == abort(w)
  IN [w1 EXCEPT !.result = IF @.state = "pending"
                             THEN [state |-> "rejected", err |-> err] ELSE @,
                !.pc = "settled", !.awaiting = 0, !.rej = NoErr]

\* a faulty .catch of connectToTarget(): the error is passed on as it is
connectCatchPass(err) == err

\* the .catch of connectToTarget()
connectCatch(err) ==
  IF err.msg = "ResponseTimeoutError" THEN Err("No Response from Device") ELSE err

\* the chain from a rejection of the awaited promise, by where it is awaited
rejected(w, err) ==
  IF w.pc = "enq" THEN startCatch(w, connectCatch(err)) ELSE startCatch(w, err)

\* a faulty ENQUIRE: handed to the master whatever the aborting flag says
enquireUnguarded(w) ==
  LET w1 == masterCommand(w, BL_OP_ENQUIRE, <<>>,
                          [timeout |-> w.me.target.target.enquireTimeout,
                           maxRetries |-> w.me.target.target.enquireRetries])
  IN [w1 EXCEPT !.me.transactions = Append(@, Len(w1.txs)),
                !.awaiting = Len(w1.txs), !.pc = "enq"]

\* the commands of start(), each followed by its wait
enquire(w) ==
  LET w1 == command(w, BL_OP_ENQUIRE, <<>>,
                    [timeout |-> w.me.target.target.enquireTimeout,
                     maxRetries |-> w.me.target.target.enquireRetries])
  IN IF w1.rej # NoErr THEN startCatch(w1, connectCatch(w1.rej)) ELSE [w1 EXCEPT !.pc = "enq"]

selectMemory(w, ab) ==
  LET w1 == emitTo(emit(w, "Connected"), "Selecting Memory", ab)
      w2 == command(w1, BL_OP_SELECT, <<w.config.space>>, NoOptions)
  IN IF w2.rej # NoErr THEN startCatch(w2, w2.rej) ELSE [w2 EXCEPT !.pc = "sel"]

erase(w, ab) ==
  LET w1 == emitTo(w, "Erasing", ab)
      w2 == command(w1, BL_OP_ERASE, <<>>,
                    [timeout |-> w.me.space.eraseTimeout, maxRetries |-> Undefined])
  IN IF w2.rej # NoErr THEN startCatch(w2, w2.rej) ELSE [w2 EXCEPT !.pc = "erase"]

verify(w, ab) ==
  LET w1 == emitTo(emit(w, "Programming Complete"), "Validating..", ab)
      w2 == command(w1, BL_OP_VERIFY, <<>>,
                    [timeout |-> w.me.space.verifyTimeout, maxRetries |-> Undefined])
  IN IF w2.rej # NoErr THEN startCatch(w2, w2.rej) ELSE [w2 EXCEPT !.pc = "verify"]

\* sendAppBlock(index, block): the DATA command
sendAppBlock(w, index, block) ==
  command(w, BL_OP_DATA, block,
          [timeout |-> w.me.space.dataTimeout, maxRetries |-> w.me.space.dataRetries])

\* the for loop of sendBlocks() at index w.blockIdx: the next block is sent
\* and awaited, or the loop is over and start() goes on to VERIFY
sendBlocksLoop(w, ab) ==
  IF w.blockIdx < Len(w.me.flashBlocks)
    THEN LET w1 == sendAppBlock(w, w.blockIdx, At(w.me.flashBlocks, w.blockIdx))
         IN IF w1.rej # NoErr THEN startCatch(w1, w1.rej) ELSE [w1 EXCEPT !.pc = "data"]
    ELSE verify(w, ab)

\* a faulty sendBlocks(): blocksCompleted is not set to 0
sendBlocksNoReset(w, ab) ==
  sendBlocksLoop([w EXCEPT !.blockIdx = 0], ab)

\* sendBlocks()
sendBlocks(w, ab) ==
  sendBlocksLoop([w EXCEPT !.me.blocksCompleted = 0, !.blockIdx = 0], ab)

\* a faulty .then of the ENQUIRE command: a response without the max buffer
\* bytes is taken as invalid
connectThenStrict(w, response, ab) ==
  IF Len(response) > 5
    THEN LET w1 == [w EXCEPT
                      !.me.blScalarVersion = (At(response, 1) * 256) + At(response, 2),
                      !.me.targetVersion = <<At(response, 1), At(response, 2)>>,
                      !.me.numberOfSpaces = At(response, 3),
                      !.me.maxBuffer = (At(response, 4) * 256) + At(response, 5)]
         IN IF At(response, 1) \notin {4, 3, 2}
              THEN throw(w1, Err("Unsupported bootloader version"))
              ELSE emit(emit(emitTo(w1, "Product Code", ab), "Bootloader Version"), "Max Buffer")
    ELSE throw(w, Err("Invalid Response to ENQ"))

\* a faulty .then of the ENQUIRE command: the length of the response is not
\* looked at
connectThenNoLength(w, response, ab) ==
  LET w1 == [w EXCEPT
               !.me.blScalarVersion = (At(response, 1) * 256) + At(response, 2),
               !.me.targetVersion = <<At(response, 1), At(response, 2)>>,
               !.me.numberOfSpaces = At(response, 3),
               !.me.maxBuffer = IF Len(response) > 5
                                  THEN (At(response, 4) * 256) + At(response, 5)
                                  ELSE 0]
  IN IF At(response, 1) \notin {4, 3, 2}
       THEN throw(w1, Err("Unsupported bootloader version"))
       ELSE emit(emit(emitTo(w1, "Product Code", ab), "Bootloader Version"), "Max Buffer")

\* a faulty .then of the ENQUIRE command: the major version is not looked at
connectThenAnyVersion(w, response, ab) ==
  IF Len(response) >= 4
    THEN LET w1 == [w EXCEPT
                      !.me.blScalarVersion = (At(response, 1) * 256) + At(response, 2),
                      !.me.targetVersion = <<At(response, 1), At(response, 2)>>,
                      !.me.numberOfSpaces = At(response, 3),
                      !.me.maxBuffer = IF Len(response) > 5
                                         THEN (At(response, 4) * 256) + At(response, 5)
                                         ELSE 0]
         IN emit(emit(emitTo(w1, "Product Code", ab), "Bootloader Version"), "Max Buffer")
    ELSE throw(w, Err("Invalid Response to ENQ"))

\* connectToTarget(): the .then of the ENQUIRE command
connectThen(w, response, ab) ==
  IF Len(response) >= 4
    THEN LET w1 == [w EXCEPT
                      !.me.blScalarVersion = (At(response, 1) * 256) + At(response, 2),
                      !.me.targetVersion = <<At(response, 1), At(response, 2)>>,
                      !.me.numberOfSpaces = At(response, 3),
                      !.me.maxBuffer = IF Len(response) > 5
                                         THEN (At(response, 4) * 256) + At(response, 5)
                                         ELSE 0]
         IN IF At(response, 1) \notin {4, 3, 2}
              THEN throw(w1, Err("Unsupported bootloader version"))
              ELSE emit(emit(emitTo(w1, "Product Code", ab), "Bootloader Version"), "Max Buffer")
    ELSE throw(w, Err("Invalid Response to ENQ"))

\* start(): the .then after connectToTarget (the select delay) and the next
afterConnect(w, ab) ==
  IF w.me.space.selectDelay > 0
    THEN [emitTo(w, "Waiting for Reset", ab) EXCEPT !.pc = "delay", !.awaiting = 0]
    ELSE selectMemory(w, ab)

\* a big-endian 32-bit value of a response, as JavaScript computes it
be32(response, i) ==
  JsAdd(JsAdd(JsAdd(JsMul(At(response, i), 16777216), JsMul(At(response, i + 1), 65536)),
              JsMul(At(response, i + 2), 256)), At(response, i + 3))

\* importFile(file) up to the creation of the loader promise
importFile(w, file, ab) ==
  IF file.kind = "stream"
    THEN throw(emitTo(w, "Loading File", ab), Err("TypeError: hex.loadStream is not a function"))
  ELSE IF file.kind = "path"
    THEN [emitTo(w, "Loading File: ", ab) EXCEPT
            !.pc = "import", !.awaiting = 0,
            !.loader = [state |-> "pending", err |-> NoErr, blocks |-> NoBlocks]]
  ELSE throw(w, Err("Dont know how to import File"))

\* a faulty .then of the SELECT command: the length of the response is not
\* looked at
selectThenAnyLength(w, response, ab) ==
  LET bs == (At(response, 0) * 256) + At(response, 1)
      w1 == [w EXCEPT !.me.blockSize = bs,
                      !.me.appStart = be32(response, 2),
                      !.me.appEnd = be32(response, 6)]
      w2 == emit(emit(emit(w1, "Min Block Size: "), "App Start: "), "App End: ")
  IN importFile(w2, w.config.file, ab)

\* start(): the .then of the SELECT command
selectThen(w, response, ab) ==
  IF Len(response) > 5
    THEN LET bs == (At(response, 0) * 256) + At(response, 1)
             w1 == IF w.me.targetVersion[1] < 4
                     THEN [w EXCEPT !.me.blockSize = bs,
                                    !.me.appStart = be32(response, 2),
                                    !.me.appEnd = be32(response, 6)]
                     ELSE [w EXCEPT !.me.blockSize = bs,
                                    !.me.appStart = ((At(response, 2) * 256) + At(response, 3)) * bs,
                                    !.me.appEnd = ((At(response, 4) * 256) + At(response, 5)) * bs]
             w2 == emit(emit(emit(w1, "Min Block Size: "), "App Start: "), "App End: ")
         IN importFile(w2, w.config.file, ab)
    ELSE throw(w, Err("Invalid response to Select"))

\* a - b of JavaScript
JsSub(a, b) == IF a = NaN \/ b = NaN THEN NaN ELSE a - b

RECURSIVE forEachBlockAnyRange(_, _, _)
\* a faulty blocks.forEach: the address range of a block is not looked at
forEachBlockAnyRange(w, blocks, todo) ==
  IF todo = {} \/ w.rej # NoErr THEN w
  ELSE LET index == CHOOSE i \in todo : \A j \in todo : i <= j
           space == w.me.space
           cell  == blocks[index]
           w1 == IF ~space.skipEmptyBlocks \/ ~callBlockIsEmpty(space, cell)
                   THEN IF cell.defined
                          THEN [w EXCEPT !.me.totalBlocks = @ + 1,
                                         !.me.flashBlocks = Append(@,
                                            callSendFilter(space, index, cell.bytes,
                                                           space.addressing, space.dataOffset))]
                          ELSE throw([w EXCEPT !.me.totalBlocks = @ + 1],
                                     Err("TypeError: Cannot read properties of undefined"))
                   ELSE w
       IN forEachBlockAnyRange(w1, blocks, todo \ {index})

RECURSIVE forEachBlock(_, _, _)
\* blocks.forEach of importFile over the elements with index in todo, in
\* ascending order; stops at the first throw
forEachBlock(w, blocks, todo) ==
  IF todo = {} \/ w.rej # NoErr THEN w
  ELSE LET index == CHOOSE i \in todo : \A j \in todo : i <= j
           space == w.me.space
           cell  == blocks[index]
           start == ((index * space.hexBlock) \div space.addressing) + space.dataOffset
           end   == ((((index + 1) * space.hexBlock) \div space.addressing)
                      - space.addressing) + space.dataOffset
           w1 == IF w.me.appEnd # NaN /\ start >= w.me.appStart /\ end <= w.me.appEnd
                   THEN IF ~space.skipEmptyBlocks \/ ~callBlockIsEmpty(space, cell)
                          THEN IF cell.defined
                                 THEN [w EXCEPT !.me.totalBlocks = @ + 1,
                                                !.me.flashBlocks = Append(@,
                                                   callSendFilter(space, index, cell.bytes,
                                                                  space.addressing, space.dataOffset))]
                                 ELSE throw([w EXCEPT !.me.totalBlocks = @ + 1],
                                            Err("TypeError: Cannot read properties of undefined"))
                          ELSE w
                   ELSE w
       IN forEachBlock(w1, blocks, todo \ {index})

\* a faulty .then of the loader: the checksum is taken from the blocks as
\* they were read, before the load filter
importThenCrcFirst(w, loaded) ==
  LET space  == w.me.space
      blocks == IF space.loadFilter # "undefined" THEN callLoadFilter(space, loaded) ELSE loaded
      w1 == [w EXCEPT !.me.flashBlocks = <<>>, !.me.totalBlocks = 0]
      w2 == [w1 EXCEPT !.me.computedCrc =
               callChecksum(space, JsSub(w.me.appStart, space.dataOffset),
                            JsSub(w.me.appEnd, space.dataOffset), space.hexBlock, loaded)]
  IN forEachBlock(w2, blocks, {i \in DOMAIN blocks : i >= 0})

\* importFile(file): the .then of the loader
importThen(w, loaded) ==
  LET space  == w.me.space
      blocks == IF space.loadFilter # "undefined" THEN callLoadFilter(space, loaded) ELSE loaded
      w1 == [w EXCEPT !.me.flashBlocks = <<>>, !.me.totalBlocks = 0]
      w2 == [w1 EXCEPT !.me.computedCrc =
               callChecksum(space, JsSub(w.me.appStart, space.dataOffset),
                            JsSub(w.me.appEnd, space.dataOffset), space.hexBlock, blocks)]
  IN forEachBlock(w2, blocks, {i \in DOMAIN blocks : i >= 0})

\* a faulty .then of the ERASE command: the answer is not looked at
eraseThenAnyAnswer(w, response, ab) ==
  sendBlocks(emitTo(emit(w, "Erase Complete"), "Sending...", ab), FALSE)

\* start(): the .then of the ERASE command
eraseThen(w, response, ab) ==
  IF BL_OP_ACK = At(response, 0)
    THEN sendBlocks(emitTo(emit(w, "Erase Complete"), "Sending...", ab), FALSE)
    ELSE startCatch(w, Err("Erase command was rejected by the device"))

\* sendAppBlock(): the .then of the DATA command
sendAppBlockThen(w, block, response, ab) ==
  IF At(response, 0) # BL_OP_ACK
    THEN throw(w, ErrArg("Unexpected response while writing data: ", At(response, 0)))
  ELSE IF w.me.blScalarVersion >= 1025
            /\ (At(block, 2) # At(response, 3) \/ At(block, 3) # At(response, 4))
    THEN throw(w, Err("ReferenceError: log is not defined"))
  ELSE LET w1 == [w EXCEPT !.me.blocksCompleted = @ + 1]
       IN IF ab
            THEN abort([w1 EXCEPT !.progress = Append(@, <<w1.me.blocksCompleted, w1.me.totalBlocks>>)])
            ELSE [w1 EXCEPT !.progress = Append(@, <<w1.me.blocksCompleted, w1.me.totalBlocks>>)]

\* a faulty .then of the VERIFY command: the checksums are not compared
verifyThenNoCompare(w, response, ab) ==
  LET w1 == emitTo(w, "Checksum: ", ab)
      w2 == command(w1, BL_OP_FINISH, <<>>,
                    [timeout |-> w.me.space.finishTimeout, maxRetries |-> Undefined])
  IN IF w2.rej # NoErr THEN startCatch(w2, w2.rej) ELSE [w2 EXCEPT !.pc = "finish"]

\* start(): the .then of the VERIFY command
verifyThen(w, response, ab) ==
  LET checksum == JsAdd(IF At(response, 0) < 0 THEN 0 ELSE At(response, 0) * 256, At(response, 1))
      w1 == emitTo(w, "Checksum: ", ab)
  IN IF w.me.computedCrc # checksum
       THEN startCatch(w1, ErrArg("Incorrect Checksum: Received ", checksum))
       ELSE LET w2 == command(w1, BL_OP_FINISH, <<>>,
                              [timeout |-> w.me.space.finishTimeout, maxRetries |-> Undefined])
            IN IF w2.rej # NoErr THEN startCatch(w2, w2.rej) ELSE [w2 EXCEPT !.pc = "finish"]

\* a faulty .then of the FINISH command: any answer is taken as success
finishThenAnyAnswer(w, response) ==
  [w EXCEPT !.result = IF @.state = "pending"
                         THEN [state |-> "resolved", err |-> NoErr] ELSE @,
            !.pc = "settled", !.awaiting = 0]

\* start(): the .then of the FINISH command
finishThen(w, response) ==
  IF BL_OP_ACK = At(response, 0)
    THEN [w EXCEPT !.result = IF @.state = "pending"
                                THEN [state |-> "resolved", err |-> NoErr] ELSE @,
                   !.pc = "settled", !.awaiting = 0]
    ELSE startCatch(w, Err("FINISH Command failed"))

\* the chain from the response of the awaited command, by where it is awaited
resolved(w, response, ab) ==
  CASE w.pc = "enq" ->
         LET w1 == connectThen(w, response, ab)
         IN IF w1.rej # NoErr THEN startCatch(w1, connectCatch(w1.rej)) ELSE afterConnect(w1, FALSE)
    [] w.pc = "sel" ->
         LET w1 == selectThen(w, response, ab)
         IN IF w1.rej # NoErr THEN startCatch(w1, w1.rej) ELSE w1
    [] w.pc = "erase" -> eraseThen(w, response, ab)
    [] w.pc = "data" ->
         LET w1 == sendAppBlockThen(w, At(w.me.flashBlocks, w.blockIdx), response, ab)
         IN IF w1.rej # NoErr THEN startCatch(w1, w1.rej)
            ELSE sendBlocksLoop([w1 EXCEPT !.blockIdx = @ + 1], FALSE)
    [] w.pc = "verify" -> verifyThen(w, response, ab)
    [] w.pc = "finish" -> finishThen(w, response)
    [] OTHER -> w

\* options.onDone(err, response) of command(), called by transaction t
\* (ab: a listener of an event emitted by the reactions calls abort())
onDone(w, t, err, response, ab) ==
  LET w1 == [w EXCEPT !.me.transactions = removeTransaction(@, t)]
  IN IF t # w.awaiting THEN w1
     ELSE IF err # NoErr THEN rejected(w1, err)
     ELSE resolved(w1, response, ab)

\* start(file, config)
start(w, file, target, space, ab) ==
  LET sp == target.spaces[space + 1]
      w1 == [w EXCEPT !.config = [file |-> file, target |-> target, space |-> space],
                      !.me.target = target,
                      !.me.space = [sp EXCEPT !.enquireRetries = IF @ > 0 THEN @ ELSE 100],
                      !.me.inPassThru = FALSE,
                      !.me.aborting = FALSE,
                      !.me.transactions = <<>>,
                      !.me.inProgress = TRUE,
                      !.txs = <<>>, !.awaiting = 0, !.blockIdx = 0,
                      !.status = <<>>, !.progress = <<>>,
                      !.result = [state |-> "pending", err |-> NoErr],
                      !.loader = [state |-> "none", err |-> NoErr, blocks |-> NoBlocks]]
  IN enquire(emitTo(w1, "Checking Communication", ab))


\* ------------------------------------------------------------ configurations
\* TARGET_DEFAULTS of BootloaderTarget.js
DefaultEnquireTimeout == 250
DefaultSelectTimeout == 250
DefaultEraseTimeout == 5000
DefaultDataTimeout == 250
DefaultVerifyTimeout == 5000
DefaultFinishTimeout == 1000
\* "defaultTimeout" of the master configuration used by the tests
MasterDefaultTimeout == 500
\* the block size of the spaces of the sessions
SessionHexBlock == 4
\* the select delay of a space that has one (ms)
SessionSelectDelay == 10

\* a byte-wise space (sendSimpleFilter, computeSimpleChecksum) with
\* dataRetries dr and select delay sd
SimpleSpace(dr, sd) ==
  [name |-> "Application", hexBlock |-> SessionHexBlock, sendBlock |-> SessionHexBlock,
   addressing |-> 1, dataOffset |-> 0,
   sendFilter |-> "sendSimpleFilter", checksum |-> "computeSimpleChecksum",
   blockIsEmpty |-> "isSimpleBlockEmpty", loadFilter |-> "undefined",
   excludeBlocks |-> NoExclude, skipEmptyBlocks |-> FALSE,
   selectDelay |-> sd, enquireRetries |-> 0,
   selectTimeout |-> DefaultSelectTimeout, eraseTimeout |-> DefaultEraseTimeout,
   dataTimeout |-> DefaultDataTimeout, verifyTimeout |-> DefaultVerifyTimeout,
   finishTimeout |-> DefaultFinishTimeout, dataRetries |-> dr]

\* a PIC24 space (sendHmiAppFilter, computeHmiAppChecksum)
Pic24Space(dr, sd) ==
  [SimpleSpace(dr, sd) EXCEPT
     !.name = "PIC24", !.addressing = 2,
     !.sendFilter = "sendHmiAppFilter", !.checksum = "computeHmiAppChecksum",
     !.blockIsEmpty = "isPic24BlockEmpty", !.loadFilter = "loadHmiAppFilter"]

\* a target of two spaces with enquireRetries er
SessionTarget(er, dr, sd) ==
  [target |-> [name |-> "Device", enquireTimeout |-> DefaultEnquireTimeout,
               enquireRetries |-> er, selectTimeout |-> DefaultSelectTimeout,
               eraseTimeout |-> DefaultEraseTimeout, dataTimeout |-> DefaultDataTimeout,
               dataRetries |-> 0, verifyTimeout |-> DefaultVerifyTimeout,
               finishTimeout |-> DefaultFinishTimeout],
   spaces |-> <<SimpleSpace(dr, sd), Pic24Space(dr, sd)>>]

\* The targets of the sessions: enquireRetries 0 .. MaxEnquireRetries, with
\* dataRetries and the select delay varied along
Targets ==
  {SessionTarget(er, er % (MaxDataRetries + 1), IF (er % 2) = 1 THEN SessionSelectDelay ELSE 0) :
     er \in 0 .. MaxEnquireRetries}

\* ------------------------------------------------------------ constructors
\* enquireRetries and dataRetries of TARGET_DEFAULTS
DefaultEnquireRetries == 20
DefaultDataRetries == 0

\* TARGET_DEFAULTS as the module defines it (the timing keys)
LibraryDefaults ==
  [name |-> "Device", enquireTimeout |-> DefaultEnquireTimeout,
   enquireRetries |-> DefaultEnquireRetries, selectTimeout |-> DefaultSelectTimeout,
   eraseTimeout |-> DefaultEraseTimeout, dataTimeout |-> DefaultDataTimeout,
   dataRetries |-> DefaultDataRetries, verifyTimeout |-> DefaultVerifyTimeout,
   finishTimeout |-> DefaultFinishTimeout]

\* the keys a caller may give to a constructor; Undefined: the key is absent
TimingKeys ==
  {"enquireTimeout", "enquireRetries", "selectTimeout", "eraseTimeout", "dataTimeout",
   "dataRetries", "verifyTimeout", "finishTimeout"}

NoTiming == [k \in TimingKeys |-> Undefined]

\* a || b of JavaScript on numbers
JsOr(a, b) == IF a = Undefined \/ a = NaN \/ a = 0 THEN b ELSE a

\* Object.assign(TARGET_DEFAULTS, target): the keys of target overwrite those
\* of the defaults object, which is returned
assign(defs, target) ==
  [k \in DOMAIN defs |->
     IF k \in TimingKeys THEN (IF target[k] = Undefined THEN defs[k] ELSE target[k])
     ELSE defs[k]]

\* the timing keys every space class sets in the same way, with the erase,
\* data and verify timeout of the class when it has its own
spaceTiming(options, defs, eraseDefault, dataDefault, verifyDefault) ==
  [selectTimeout |-> JsOr(options.selectTimeout, defs.selectTimeout),
   eraseTimeout |-> JsOr(options.eraseTimeout, eraseDefault),
   dataTimeout |-> JsOr(options.dataTimeout, dataDefault),
   dataRetries |-> JsOr(options.dataRetries, defs.dataRetries),
   verifyTimeout |-> JsOr(options.verifyTimeout, verifyDefault),
   finishTimeout |-> JsOr(options.finishTimeout, defs.finishTimeout)]

\* an object literal given as a space (as SPACE_DEFAULT and the spaces of the
\* target classes): only the keys it states
literalSpace(options) ==
  [class |-> "literal", addressing |-> 1, loadFilter |-> "undefined",
   sendFilter |-> "sendSimpleFilter", checksum |-> "computeSimpleChecksum",
   blockIsEmpty |-> "isSimpleBlockEmpty", dataOffset |-> Undefined,
   excludeBlocks |-> NoExclude,
   timing |-> [k \in TimingKeys \ {"enquireTimeout", "enquireRetries"} |-> options[k]]]

\* new PIC24Application(options), with TARGET_DEFAULTS as it is then
PIC24Application(options, defs) ==
  [class |-> "PIC24Application", addressing |-> 2, loadFilter |-> "loadHmiAppFilter",
   sendFilter |-> "sendHmiAppFilter", checksum |-> "computeHmiAppChecksum",
   blockIsEmpty |-> "isPic24BlockEmpty", dataOffset |-> Undefined,
   excludeBlocks |-> options.excludeBlocks,
   timing |-> spaceTiming(options, defs, defs.eraseTimeout, defs.dataTimeout,
                          defs.verifyTimeout)]

\* new PIC18Application(options)
PIC18Application(options, defs) ==
  [class |-> "PIC18Application", addressing |-> 1, loadFilter |-> "undefined",
   sendFilter |-> "sendSimpleFilter", checksum |-> "computeSimpleChecksum",
   blockIsEmpty |-> "isSimpleBlockEmpty", dataOffset |-> Undefined,
   excludeBlocks |-> options.excludeBlocks,
   timing |-> spaceTiming(options, defs, defs.eraseTimeout, defs.dataTimeout,
                          defs.verifyTimeout)]

\* new PIC18Eeprom(options)
PIC18Eeprom(options, defs) ==
  [class |-> "PIC18Eeprom", addressing |-> 1, loadFilter |-> "undefined",
   sendFilter |-> "sendSimpleFilter", checksum |-> "computeSimpleChecksum",
   blockIsEmpty |-> "isSimpleBlockEmpty", dataOffset |-> -15728640,
   excludeBlocks |-> options.excludeBlocks,
   timing |-> spaceTiming(options, defs, defs.eraseTimeout, defs.dataTimeout,
                          defs.verifyTimeout)]

\* new W25ExtFlash(options) (also exported as EEPROM)
W25ExtFlash(options, defs) ==
  [class |-> "W25ExtFlash", addressing |-> 1, loadFilter |-> "undefined",
   sendFilter |-> "sendSimpleFilter", checksum |-> "computeSimpleChecksum",
   blockIsEmpty |-> "isSimpleBlockEmpty", dataOffset |-> 0,
   excludeBlocks |-> options.excludeBlocks,
   timing |-> spaceTiming(options, defs, 60000, defs.dataTimeout, 60000)]

\* new PIC16TinyBL(options)
PIC16TinyBL(options, defs) ==
  [class |-> "PIC16TinyBL", addressing |-> 2, loadFilter |-> "loadSimpleFilter",
   sendFilter |-> "sendSimpleFilter", checksum |-> "computeSimpleChecksumNoFill",
   blockIsEmpty |-> "isSimpleBlockEmpty", dataOffset |-> 0,
   excludeBlocks |-> IF options.excludeBlocks.kind = "undefined"
                       THEN [kind |-> "object",
                             ranges |-> <<[start |-> 1920, end |-> 1927, exclude |-> TRUE]>>]
                       ELSE options.excludeBlocks,
   timing |-> spaceTiming(options, defs, defs.eraseTimeout, 2500, defs.verifyTimeout)]

\* the space a class name and options give
newSpace(class, options, defs) ==
  CASE class = "PIC24Application" -> PIC24Application(options, defs)
    [] class = "PIC18Application" -> PIC18Application(options, defs)
    [] class = "PIC18Eeprom" -> PIC18Eeprom(options, defs)
    [] class = "W25ExtFlash" -> W25ExtFlash(options, defs)
    [] class = "PIC16TinyBL" -> PIC16TinyBL(options, defs)
    [] OTHER -> literalSpace(options)

\* new DefaultBootloaderTarget(target, spaces), for one space: the target
\* keys are assigned to TARGET_DEFAULTS, which becomes me.target, and the
\* timing keys the space lacks are taken from it
DefaultBootloaderTarget(defs, target, space) ==
  LET merged == assign(defs, target)
  IN [target |-> merged,
      space |-> [space EXCEPT
                   !.timing = [k \in DOMAIN space.timing |-> JsOr(space.timing[k], merged[k])],
                   !.dataOffset = JsOr(@, 0)]]

\* The options of the constructions: what a caller states for a space, and
\* for a target
SpaceClasses ==
  {"literal", "PIC24Application", "PIC18Application", "PIC18Eeprom", "W25ExtFlash",
   "PIC16TinyBL"}

SpaceOptions ==
  {[NoTiming EXCEPT !.eraseTimeout = e, !.dataTimeout = d] @@ [excludeBlocks |-> NoExclude] :
     e \in {Undefined, 9000}, d \in {Undefined, 300}}

TargetOptions ==
  {[NoTiming EXCEPT !.eraseTimeout = e, !.dataTimeout = d, !.enquireTimeout = q] :
     e \in {Undefined, 1000}, d \in {Undefined, 2000}, q \in {Undefined, 500}}

\* ------------------------------------------------------------ HEX files
\* the two hex digits of a byte
hexDigits(byte) == <<byte \div 16, byte % 16>>

RECURSIVE hexText(_)
hexText(bytes) == IF bytes = <<>> THEN <<>> ELSE hexDigits(Head(bytes)) \o hexText(Tail(bytes))

RECURSIVE sumOf(_)
sumOf(bytes) == IF bytes = <<>> THEN 0 ELSE Head(bytes) + sumOf(Tail(bytes))

\* the text line of a well-formed record
recordLine(address, type, data) ==
  LET body == <<Len(data), address \div 256, address % 256, type>> \o data
  IN <<Colon>> \o hexText(body \o <<(256 - (sumOf(body) % 256)) % 256>>)

eofLine == recordLine(0, END_OF_FILE, <<>>)

RECURSIVE dataLines(_, _)
\* n DATA records of one block each, at addresses 0, hexBlock, ...
dataLines(k, n) ==
  IF k >= n THEN <<>>
  ELSE <<recordLine(k * SessionHexBlock, DATA,
                    [i \in 1 .. SessionHexBlock |-> (16 * (k + 1)) + i])>>
       \o dataLines(k + 1, n)

\* a record line whose checksum byte is wrong
badSumLine == <<Colon>> \o hexText(<<0, 0, 0, DATA, 1>>)

\* a well-formed file of block 0 of EMPTY_VALUE only, no blocks 1 .. 4 and
\* block 5 with data
sparseLines ==
  <<recordLine(0, DATA, [i \in 1 .. SessionHexBlock |-> EMPTY_VALUE]),
    recordLine(5 * SessionHexBlock, DATA, [i \in 1 .. SessionHexBlock |-> 64 + i]),
    eofLine>>

\* What the file system holds for the path given to start(): a readable file
\* of these lines (well-formed with 0 .. MaxFileBlocks blocks; with an empty
\* block, a hole and a block past the application; without the
\* END_OF_FILE record; with an invalid line; with a record type that is not
\* handled; with a record type that is not known), or nothing readable
FileContents ==
  {[readable |-> TRUE, lines |-> dataLines(0, n) \o <<eofLine>>] : n \in 0 .. MaxFileBlocks}
  \cup {[readable |-> TRUE, lines |-> sparseLines],
        [readable |-> TRUE, lines |-> dataLines(0, 1)],
        [readable |-> TRUE, lines |-> <<badSumLine, eofLine>>],
        [readable |-> TRUE,
         lines |-> <<recordLine(0, START_LINEAR_ADDR, <<0, 0, 0, 0>>), eofLine>>],
        [readable |-> TRUE, lines |-> <<recordLine(0, START_LINEAR_ADDR + 1, <<>>), eofLine>>],
        [readable |-> FALSE, lines |-> <<>>]}

\* The first argument of start(): a path, a Readable stream, something else
PathSource == [kind |-> "path"]
Sources == {PathSource, [kind |-> "stream"], [kind |-> "other"]}

\* a byte-wise space with loadSimpleFilter that excludes block 1
ExcludeSpace ==
  [SimpleSpace(0, 0) EXCEPT
     !.name = "Excluding", !.loadFilter = "loadSimpleFilter",
     !.excludeBlocks = [kind |-> "array",
                        ranges |-> <<[start |-> 1, end |-> 1, exclude |-> TRUE]>>]]

ExcludeTarget == [SessionTarget(0, 0, 0) EXCEPT !.spaces[1] = ExcludeSpace]

\* a byte-wise space that asks for empty blocks to be left out
SkipEmptySpace == [SimpleSpace(0, 0) EXCEPT !.name = "Skipping", !.skipEmptyBlocks = TRUE]

SkipEmptyTarget == [SessionTarget(0, 0, 0) EXCEPT !.spaces[1] = SkipEmptySpace]

\* The arguments of start() of the sessions: every target and space with a
\* path, the other sources with one target, the excluding space and the space
\* that skips empty blocks with a path
Configs ==
  {[file |-> PathSource, target |-> t, space |-> sp] : t \in Targets, sp \in {0, 1}}
  \cup {[file |-> f, target |-> SessionTarget(0, 0, 0), space |-> 0] : f \in Sources}
  \cup {[file |-> PathSource, target |-> tg, space |-> 0] : tg \in {ExcludeTarget, SkipEmptyTarget}}

\* The arguments of a session that is started again after it ended
RestartConfig == [file |-> PathSource, target |-> SessionTarget(0, 0, 0), space |-> 0]

\* Lines of text a file may hold: the END_OF_FILE record, bare and between
\* blanks; a DATA record; an empty line and a line of blanks; a line of four
\* bytes; a record whose count is one more than its data; a record with a
\* wrong checksum; the END_OF_FILE record with two characters that are no hex
\* digits in place of its checksum; a DATA record with such characters for
\* its data byte; the END_OF_FILE and the DATA record with another character
\* or a digit in place of the colon; extended linear address records with a
\* first data byte below and above 127; a DATA record of five bytes at
\* address 1; records of the types that are not handled and of an unknown type
TextLines ==
  { eofLine,
    <<Blank>> \o eofLine \o <<Blank>>,
    recordLine(0, DATA, <<1, 2>>),
    <<>>,
    <<Blank, Blank>>,
    <<Colon>> \o hexText(<<0, 0, 0, END_OF_FILE>>),
    <<Colon>> \o hexText(<<1, 0, 0, DATA, 255>>),
    badSumLine,
    <<Colon>> \o hexText(<<0, 0, 0, END_OF_FILE>>) \o <<OtherChar, OtherChar>>,
    <<Colon>> \o hexText(<<1, 0, 0, DATA>>) \o <<OtherChar, OtherChar>> \o hexText(<<0>>),
    <<OtherChar>> \o Tail(eofLine),
    <<0>> \o Tail(recordLine(0, DATA, <<1, 2>>)),
    recordLine(0, EXT_LINEAR_ADDR, <<0, 1>>),
    recordLine(0, EXT_LINEAR_ADDR, <<255, 0>>),
    recordLine(1, DATA, <<1, 2, 3, 4, 5>>),
    recordLine(0, EXT_SEGMENT_ADDR, <<16, 0>>),
    recordLine(0, START_SEGMENT_ADDR, <<0, 0, 0, 0>>),
    recordLine(0, START_LINEAR_ADDR, <<0, 0, 0, 0>>),
    recordLine(0, START_LINEAR_ADDR + 1, <<>>) }

\* the block sizes loadFile() is called with
BlockSizes == {2, SessionHexBlock}

\* ------------------------------------------------------------ imports
\* The spaces, application ranges and block stores of the imports that are
\* looked at on their own.
\* byte-wise spaces with either checksum, addressing 1 and 2, two data offsets
ChecksumSpaces ==
  {[SimpleSpace(0, 0) EXCEPT !.addressing = a, !.dataOffset = off, !.checksum = c] :
     a \in {1, 2}, off \in {0, 2},
     c \in {"computeSimpleChecksum", "computeSimpleChecksumNoFill"}}

\* new PIC16TinyBL({ hexBlock: 4 }) in a target: no excludeBlocks option
TinyBLSpace ==
  LET made == DefaultBootloaderTarget(LibraryDefaults, NoTiming,
                PIC16TinyBL(NoTiming @@ [excludeBlocks |-> NoExclude], LibraryDefaults)).space
  IN [SimpleSpace(0, 0) EXCEPT
        !.name = "PIC116", !.addressing = made.addressing, !.dataOffset = made.dataOffset,
        !.sendFilter = made.sendFilter, !.checksum = made.checksum,
        !.blockIsEmpty = made.blockIsEmpty, !.loadFilter = made.loadFilter,
        !.excludeBlocks = made.excludeBlocks]

\* a PIC24 space with blocks of two strides
WidePic24Space == [Pic24Space(0, 0) EXCEPT !.hexBlock = 2 * SessionHexBlock]

ImportSpaces == ChecksumSpaces \cup {Pic24Space(0, 0), WidePic24Space, TinyBLSpace}

\* application ranges as a SELECT response gives them
ImportRanges ==
  {[appStart |-> 0, appEnd |-> SessionHexBlock], [appStart |-> 0, appEnd |-> 7],
   [appStart |-> 0, appEnd |-> 16], [appStart |-> 3, appEnd |-> 7],
   [appStart |-> 3838, appEnd |-> 3860]}

\* a block of n bytes that starts with byte b
dataBlock(b, n) == BlockCell([i \in 1 .. n |-> b + i])

\* Block stores as loadFile() resolves with: block 0 alone, holding
\* EMPTY_VALUE only, data, EMPTY_VALUE but for a fourth byte, and two blocks
\* whose CRC-16 is that of four bytes of EMPTY_VALUE and the seed; blocks
\* 0 .. 4; blocks around 0x780 and 0x787; blocks of two strides
ImportStores ==
  {(0 :> BlockCell(bytes)) :
     bytes \in {<<255, 255, 255, 255>>, <<1, 2, 3, 4>>, <<255, 255, 255, 0>>,
                <<1, 2, 126, 30>>, <<1, 2, 214, 244>>}}
  \cup {[i \in 0 .. 4 |-> dataBlock(16 * i, SessionHexBlock)],
        [i \in {1919, 1920, 1927, 1928} |-> dataBlock(i % 200, SessionHexBlock)],
        [i \in 0 .. 1 |-> dataBlock(32 * i, 2 * SessionHexBlock)]}

\* ------------------------------------------------------------ the device
\* What the target answers (response.values, after the opcode echo).
EnqResponses ==
  { <<50, 2, 1, 2>>, <<50, 3, 0, 2>>, <<50, 4, 0, 2, 0, 64>>, <<50, 4, 6, 1, 0, 64>>,
    <<50, 5, 0, 2>>, <<109, 145>> }

SelResponses ==
  { <<0, SessionHexBlock, 0, 0, 0, 0, 0, 0, 0, 2 * SessionHexBlock>>,
    <<0, SessionHexBlock, 0, 0, 0, 2>>,
    <<0, SessionHexBlock>> }

AckResponses == { <<BL_OP_ACK>>, <<BL_OP_NACK>> }

DataResponses(tx) ==
  { <<BL_OP_ACK, 0, 0, At(tx.data, 2), At(tx.data, 3)>>,
    <<BL_OP_ACK, 0, 0, At(tx.data, 2), (At(tx.data, 3) + 1) % 256>>,
    <<BL_OP_NACK>> }

VerifyResponses(crc) ==
  IF crc < 0 THEN { <<0, 0>> }
  ELSE { <<crc \div 256, crc % 256>>, <<crc \div 256, (crc + 1) % 256>> }

DeviceResponses(tx) ==
  CASE tx.op = BL_OP_ENQUIRE -> EnqResponses
    [] tx.op = BL_OP_SELECT -> SelResponses
    [] tx.op = BL_OP_DATA -> DataResponses(tx)
    [] tx.op = BL_OP_VERIFY -> VerifyResponses(me.computedCrc)
    [] OTHER -> AckResponses

\* ------------------------------------------------------------ the state machine
\* the constructor of ModbusBootloader
\* nothing was constructed yet
\* no block store was imported yet
NoImport ==
  [done |-> FALSE, space |-> SimpleSpace(0, 0), appStart |-> 0, appEnd |-> 0,
   blocks |-> NoBlocks, flashBlocks |-> <<>>, totalBlocks |-> 0, computedCrc |-> 0,
   rej |-> NoErr]

\* new HexFile(), nothing loaded yet
NoLast == [read |-> FALSE, line |-> <<>>, parsed |-> parseHexLine(<<>>, 0)]
NoSettled == [ok |-> FALSE, blocks |-> NoBlocks, err |-> NoErr]
NewReader ==
  [phase |-> "idle", loads |-> 0,
   st |-> [hex |-> NewHexFile, errors |-> 0, complete |-> 0, errorText |-> NoErr],
   last |-> NoLast, settled |-> NoSettled]

NoBuilt ==
  [phase |-> "none", constructions |-> 0, class |-> "literal",
   spaceGiven |-> NoTiming @@ [excludeBlocks |-> NoExclude],
   created |-> literalSpace(NoTiming), targetGiven |-> NoTiming,
   space |-> literalSpace(NoTiming)]

NewBootloader ==
  [flashBlocks |-> <<>>, target |-> [null |-> TRUE], space |-> [null |-> TRUE],
   blockSize |-> 0, inPassThru |-> FALSE,
   targetVersion |-> <<0, 0>>, blScalarVersion |-> 0,
   transactions |-> <<>>, computedCrc |-> Undefined,
   aborting |-> FALSE, inProgress |-> FALSE,
   numberOfSpaces |-> Undefined, maxBuffer |-> Undefined,
   appStart |-> Undefined, appEnd |-> Undefined,
   totalBlocks |-> Undefined, blocksCompleted |-> Undefined]

Init ==
  /\ pc = "idle"
  /\ config = [file |-> [null |-> TRUE], target |-> [null |-> TRUE], space |-> 0]
  /\ me = NewBootloader
  /\ master \in {[defaultTimeout |-> MasterDefaultTimeout, defaultMaxRetries |-> r] :
                   r \in 0 .. MaxDefaultRetries}
  /\ txs = <<>>
  /\ awaiting = 0
  /\ blockIdx = 0
  /\ status = <<>>
  /\ progress = <<>>
  /\ result = [state |-> "none", err |-> NoErr]
  /\ loader = [state |-> "none", err |-> NoErr, blocks |-> NoBlocks]
  /\ sessions = 0
  /\ TARGET_DEFAULTS = LibraryDefaults
  /\ built = NoBuilt
  /\ reader = NewReader
  /\ imported = NoImport

\* the application calls start() (no session is running)
Start ==
  /\ pc \in {"idle", "ended"}
  /\ sessions < MaxSessions
  /\ \E c \in Configs, ab \in BOOLEAN :
       /\ sessions > 0 => (config = RestartConfig /\ c = RestartConfig)
       /\ Commit(start(World, c.file, c.target, c.space, ab))
  /\ sessions' = sessions + 1
  /\ UNCHANGED master

\* the application calls abort()
Abort ==
  /\ Commit(abort(World))
  /\ UNCHANGED <<master, sessions>>

\* the device answers the request of a transaction
Respond ==
  /\ \E t \in 1 .. Len(txs) :
       /\ txs[t].state = "sent"
       /\ \E response \in DeviceResponses(txs[t]), ab \in BOOLEAN :
            Commit(onDone([World EXCEPT !.txs[t].state = "done",
                                        !.txs[t].response = response],
                          t, NoErr, response, ab))
  /\ UNCHANGED <<master, sessions>>

RECURSIVE Retransmissions(_, _)
\* the requests of the transactions 1 .. t that were transmitted again
Retransmissions(txns, t) ==
  IF t < 1 THEN 0 ELSE (txns[t].sent - 1) + Retransmissions(txns, t - 1)

\* a request times out and is transmitted again
Retransmit ==
  /\ Retransmissions(txs, Len(txs)) < MaxRetransmits
  /\ \E t \in 1 .. Len(txs) :
       /\ txs[t].state = "sent"
       /\ txs[t].failures + 1 <= txs[t].maxRetries
       /\ txs' = [txs EXCEPT ![t].failures = @ + 1, ![t].sent = @ + 1]
  /\ UNCHANGED <<pc, config, me, master, awaiting, blockIdx, status, progress, result,
                 loader, sessions, library>>

\* the last request of a transaction times out
TimeoutError ==
  /\ \E t \in 1 .. Len(txs) :
       /\ txs[t].state = "sent"
       /\ txs[t].failures + 1 > txs[t].maxRetries
       /\ Commit(onDone([World EXCEPT !.txs[t].state = "done", !.txs[t].failures = @ + 1],
                        t, Err("ResponseTimeoutError"), <<>>, FALSE))
  /\ UNCHANGED <<master, sessions>>

\* the transport fails a transaction with another error
TransportError ==
  /\ \E t \in 1 .. Len(txs) :
       /\ txs[t].state = "sent"
       /\ Commit(onDone([World EXCEPT !.txs[t].state = "done"],
                        t, Err("TransportError"), <<>>, FALSE))
  /\ UNCHANGED <<master, sessions>>

\* the transport completes a cancelled transaction
CancelDone ==
  /\ \E t \in 1 .. Len(txs) :
       /\ txs[t].state = "cancelled"
       /\ Commit(onDone([World EXCEPT !.txs[t].state = "done"],
                        t, Err("Cancelled"), <<>>, FALSE))
  /\ UNCHANGED <<master, sessions>>

\* the select-delay timer fires
DelayElapsed ==
  /\ pc = "delay"
  /\ \E ab \in BOOLEAN : Commit(selectMemory(World, ab))
  /\ UNCHANGED <<master, sessions>>

\* the HEX file has been read: the loader promise settles
LoaderDone ==
  /\ pc = "import"
  /\ \E file \in FileContents, ab \in BOOLEAN :
       LET loaded == loadFile(NewHexFile, file, me.space.hexBlock).settled
           w0 == [World EXCEPT !.loader = [state |-> IF loaded.ok THEN "fulfilled" ELSE "rejected",
                                           err |-> loaded.err,
                                           blocks |-> IF loaded.ok THEN loaded.blocks ELSE NoBlocks]]
       IN Commit(IF ~loaded.ok THEN startCatch(w0, loaded.err)
                 ELSE LET w1 == importThen(w0, loaded.blocks)
                      IN IF w1.rej # NoErr THEN startCatch(w1, w1.rej) ELSE erase(w1, ab))
  /\ UNCHANGED <<master, sessions>>

\* the .finally of start()
Finally ==
  /\ pc = "settled"
  /\ pc' = "ended"
  /\ me' = [me EXCEPT !.inProgress = FALSE]
  /\ UNCHANGED <<config, master, txs, awaiting, blockIdx, status, progress, result,
                 loader, sessions, library>>

Next ==
  \/ Start
  \/ Abort
  \/ Respond
  \/ Retransmit
  \/ TimeoutError
  \/ TransportError
  \/ CancelDone
  \/ DelayElapsed
  \/ LoaderDone
  \/ Finally

Spec == Init /\ [][Next]_vars

\* ------------------------------------------------------------ the library
\* The constructors of BootloaderTarget.js, called by the application before
\* any session.
\* the application constructs a space from a class (or writes a literal)
ConstructSpace ==
  /\ built.constructions < MaxConstructions
  /\ \E class \in SpaceClasses, options \in SpaceOptions :
       LET made == newSpace(class, options, TARGET_DEFAULTS)
       IN built' = [built EXCEPT !.phase = "space", !.class = class,
                                 !.spaceGiven = options, !.created = made,
                                 !.targetGiven = NoTiming, !.space = made]
  /\ UNCHANGED <<engine, TARGET_DEFAULTS, reader, imported>>

\* the application constructs a target with the space it constructed
ConstructTarget ==
  /\ built.phase = "space"
  /\ \E options \in TargetOptions :
       LET made == DefaultBootloaderTarget(TARGET_DEFAULTS, options, built.created)
       IN /\ TARGET_DEFAULTS' = made.target
          /\ built' = [built EXCEPT !.phase = "target", !.targetGiven = options,
                                    !.space = made.space, !.constructions = @ + 1]
  /\ UNCHANGED <<engine, reader, imported>>

LibNext ==
  \/ ConstructSpace
  \/ ConstructTarget

LibSpec == Init /\ [][LibNext]_vars

\* ------------------------------------------------------------ the HEX reader
\* A HexFile object used on its own: loadFile() and the handlers of the
\* events of the stream and the line reader.  The application waits for the
\* promise of a load before it loads again.
\* loadFile(filename, blockSize): the executor of the promise
LoadFileCalled ==
  /\ reader.phase # "open"
  /\ reader.loads < MaxLoads
  /\ \E blockSize \in BlockSizes :
       reader' = [reader EXCEPT
                    !.phase = "open", !.loads = @ + 1,
                    !.st = [hex |-> [reader.st.hex EXCEPT !.blockSize = blockSize,
                                                          !.blocks = NoBlocks,
                                                          !.linesInFile = 0],
                            errors |-> 0, complete |-> 0, errorText |-> NoErr],
                    !.last = NoLast, !.settled = NoSettled]
  /\ UNCHANGED <<engine, TARGET_DEFAULTS, built, imported>>

\* lineReader.on('line')
LineRead ==
  /\ reader.phase = "open"
  /\ reader.st.hex.linesInFile < MaxLines
  /\ \E rawLine \in TextLines :
       LET line == trim(rawLine)
       IN reader' = [reader EXCEPT
                       !.st = onLine(reader.st, rawLine),
                       !.last = IF Len(line) = 0 THEN NoLast
                                ELSE [read |-> TRUE, line |-> line,
                                      parsed |-> parseHexLine(line,
                                                   reader.st.hex.linesInFile + 1)]]
  /\ UNCHANGED <<engine, TARGET_DEFAULTS, built, imported>>

\* lineReader.on('close'): done()
StreamClosed ==
  /\ reader.phase = "open"
  /\ reader' = [reader EXCEPT !.phase = "closed", !.settled = loadDone(reader.st)]
  /\ UNCHANGED <<engine, TARGET_DEFAULTS, built, imported>>

\* stream.on('error')
StreamError ==
  /\ reader.phase = "open"
  /\ LET st1 == [reader.st EXCEPT !.errors = 1, !.errorText = Err("File read error")]
     IN reader' = [reader EXCEPT !.phase = "closed", !.st = st1, !.settled = loadDone(st1)]
  /\ UNCHANGED <<engine, TARGET_DEFAULTS, built, imported>>

HexNext ==
  \/ LoadFileCalled
  \/ LineRead
  \/ StreamClosed
  \/ StreamError

HexSpec == Init /\ [][HexNext]_vars

\* ------------------------------------------------------------ the import
\* The .then of the loader in importFile(), for a block store of blocks of
\* the hexBlock of the space; one import is looked at
ImportStore ==
  /\ ~imported.done
  /\ \E space \in ImportSpaces, range \in ImportRanges, blocks \in ImportStores :
       /\ \A i \in DOMAIN blocks : Len(blocks[i].bytes) = space.hexBlock
       /\ LET w0 == [World EXCEPT !.me.space = space, !.me.appStart = range.appStart,
                                  !.me.appEnd = range.appEnd]
              w1 == importThen(w0, blocks)
          IN imported' = [done |-> TRUE, space |-> space, appStart |-> range.appStart,
                          appEnd |-> range.appEnd, blocks |-> blocks,
                          flashBlocks |-> w1.me.flashBlocks,
                          totalBlocks |-> w1.me.totalBlocks,
                          computedCrc |-> w1.me.computedCrc, rej |-> w1.rej]
  /\ UNCHANGED <<engine, TARGET_DEFAULTS, built, reader>>

ImportNext == ImportStore

ImportSpec == Init /\ [][ImportNext]_vars

\* The scheduling of the event loop: a transaction that was cancelled is
\* completed by the transport, a timer that was set fires, the loader promise
\* settles, and the .finally of a settled promise runs
FairSpec ==
  /\ Spec
  /\ WF_vars(CancelDone)
  /\ WF_vars(DelayElapsed)
  /\ WF_vars(LoaderDone)
  /\ WF_vars(Finally)

\* ------------------------------------------------------------ properties
\* how many 'Aborted' status events a list of events holds
CountAborted(events) == Cardinality({i \in 1 .. Len(events) : events[i] = "Aborted"})

\* an ENQUIRE response connectToTarget() accepts
ValidEnq(response) == Len(response) >= 4 /\ At(response, 1) \in {2, 3, 4}

\* C1: when start() has resolved, the commands handed to the transport in the
\* session are, in this order and nothing else, ENQUIRE, SELECT, ERASE, one
\* DATA for each entry of flashBlocks in ascending index, VERIFY, FINISH;
\* each was completed and FINISH was answered with ACK.
C1_CommandOrder ==
  result.state = "resolved" =>
    LET n == Len(me.flashBlocks)
    IN /\ Len(txs) = n + 5
       /\ txs[1].op = BL_OP_ENQUIRE
       /\ txs[2].op = BL_OP_SELECT
       /\ txs[3].op = BL_OP_ERASE
       /\ \A k \in 1 .. n : txs[3 + k].op = BL_OP_DATA /\ txs[3 + k].data = me.flashBlocks[k]
       /\ txs[n + 4].op = BL_OP_VERIFY
       /\ txs[n + 5].op = BL_OP_FINISH
       /\ \A t \in 1 .. Len(txs) : txs[t].state = "done"
       /\ At(txs[n + 5].response, 0) = BL_OP_ACK

\* a session resolved after two DATA blocks
C1_Witness == result.state = "resolved" /\ Len(me.flashBlocks) = 2

\* C2: at most one command is outstanding at the transport: the list of
\* pending transactions holds at most one, which is the last command issued,
\* and every command before the last one has completed.
C2_OneInFlight ==
  /\ Len(me.transactions) <= 1
  /\ \A i \in 1 .. Len(me.transactions) : me.transactions[i] = Len(txs)
  /\ Cardinality({t \in 1 .. Len(txs) : txs[t].state = "sent"}) <= 1
  /\ \A t \in 1 .. Len(txs) - 1 : txs[t].state = "done"

\* the second DATA command is outstanding, the first one was acknowledged
C2_Witness ==
  /\ pc = "data"
  /\ blockIdx = 1
  /\ me.transactions = <<Len(txs)>>
  /\ txs[Len(txs)].op = BL_OP_DATA
  /\ txs[Len(txs)].state = "sent"
  /\ txs[Len(txs) - 1].op = BL_OP_DATA

\* C3: once abort() was called in a session, no command is handed to the
\* transport and no request is transmitted until the next start(); a command()
\* of the session after it (after the select delay, after the import) rejects
\* start(), after the select delay with 'Aborted by user'; a start() whose
\* first status listener aborts hands nothing to the transport.
C3_NoCommandAfterAbort ==
  [][/\ (me'.aborting /\ sessions' = sessions) =>
          /\ Len(txs') = Len(txs)
          /\ \A t \in 1 .. Len(txs) : txs'[t].sent = txs[t].sent /\ txs'[t].op = txs[t].op
     /\ (me.aborting /\ pc \in {"delay", "import"} /\ pc' # pc) =>
          /\ result'.state = "rejected"
          /\ pc = "delay" => result'.err = Err("Aborted by user")
     /\ (me'.aborting /\ sessions' > sessions) =>
          /\ txs' = <<>>
          /\ result' = [state |-> "rejected", err |-> Err("Aborted by user")]
    ]_vars

\* a session rejected by command() after an abort that came after the ENQUIRE
C3_Witness ==
  /\ result = [state |-> "rejected", err |-> Err("Aborted by user")]
  /\ Len(txs) >= 1

C5_AbortDuringData ==
  (/\ result.state = "rejected"
   /\ Len(txs) > 0
   /\ txs[Len(txs)].op = BL_OP_DATA
   /\ txs[Len(txs)].cancelCalls > 0)
    => /\ result.err = Err("Aborted by user")
       /\ CountAborted(status) = 1
       /\ \A t \in 1 .. Len(txs) : txs[t].op \notin {BL_OP_VERIFY, BL_OP_FINISH}

C7_IdleAbortNoOp ==
  [][/\ (pc \in {"idle", "ended"} /\ sessions' = sessions) =>
          (status' = status /\ txs' = txs)
     /\ (sessions' > sessions /\ ~me'.aborting) =>
          (Len(txs') = 1 /\ txs'[1].op = BL_OP_ENQUIRE)
    ]_vars

\* C8: when start() has rejected, abort() has run in the session: the engine
\* is aborting, 'Aborted' was emitted, and no transaction is left transmitting
\* (every one still in the pending list was cancelled).
C8_ImplicitAbort ==
  result.state = "rejected" =>
    /\ me.aborting
    /\ CountAborted(status) = 1
    /\ \A t \in 1 .. Len(txs) : txs[t].state # "sent"
    /\ \A i \in 1 .. Len(me.transactions) : txs[me.transactions[i]].cancelCalls >= 1

\* a session rejected by the device's answer to ERASE
C8_Witness ==
  /\ result = [state |-> "rejected", err |-> Err("Erase command was rejected by the device")]
  /\ txs[Len(txs)].op = BL_OP_ERASE

\* C9: when a valid response answers attempt k >= 2 of the ENQUIRE, k is at
\* most enquireRetries + 1 and the session goes on to SELECT (at once or after
\* the select delay), unless a status listener aborted it, which rejects
\* start() with 'Aborted by user'; the ENQUIRE request was transmitted k
\* times: no completed transaction transmits again and no second ENQUIRE is
\* issued.
C9_EnquireRetry ==
  [][/\ (/\ pc = "enq"
         /\ sessions' = sessions
         /\ txs[1].state = "sent"
         /\ txs[1].sent >= 2
         /\ txs'[1].state = "done"
         /\ ValidEnq(txs'[1].response)) =>
          /\ txs'[1].sent = txs[1].sent
          /\ txs[1].sent <= config.target.target.enquireRetries + 1
          /\ \/ /\ result'.state = "pending"
                /\ pc' \in {"sel", "delay"}
                /\ pc' = "sel" => (Len(txs') = 2 /\ txs'[2].op = BL_OP_SELECT)
                /\ pc' = "delay" => Len(txs') = 1
             \/ /\ result' = [state |-> "rejected", err |-> Err("Aborted by user")]
                /\ Len(txs') = 1
     /\ sessions' = sessions =>
          /\ \A t \in 1 .. Len(txs) : txs[t].state = "done" => txs'[t].sent = txs[t].sent
          /\ \A t \in 2 .. Len(txs') : txs'[t].op # BL_OP_ENQUIRE
    ]_vars

\* a session that resolved after the second ENQUIRE attempt was answered
C9_Witness ==
  /\ result.state = "resolved"
  /\ txs[1].op = BL_OP_ENQUIRE
  /\ txs[1].sent = 2

\* C10: when the last attempt of the ENQUIRE times out, enquireRetries + 1
\* requests were transmitted, start() rejects with 'No Response from Device'
\* and no SELECT was issued; that failure is only ever reported so.
C10_EnquireExhaustion ==
  [][/\ (/\ pc = "enq"
         /\ sessions' = sessions
         /\ txs[1].state = "sent"
         /\ txs'[1].state = "done"
         /\ txs'[1].failures > txs[1].failures) =>
          /\ txs'[1].sent = config.target.target.enquireRetries + 1
          /\ txs'[1].failures = txs'[1].sent
          /\ result' = [state |-> "rejected", err |-> Err("No Response from Device")]
          /\ Len(txs') = 1
     /\ result'.err = Err("No Response from Device") =>
          /\ Len(txs') = 1
          /\ txs'[1].op = BL_OP_ENQUIRE
          /\ txs'[1].sent = config'.target.target.enquireRetries + 1
    ]_vars

\* a session that failed after the ENQUIRE was transmitted twice
C10_Witness ==
  /\ result = [state |-> "rejected", err |-> Err("No Response from Device")]
  /\ txs[1].sent = 2

\* the step in which the device's response completes the awaited command
Answered ==
  /\ awaiting > 0
  /\ sessions' = sessions
  /\ txs[awaiting].state = "sent"
  /\ txs'[awaiting].state = "done"
  /\ txs'[awaiting].response # <<>>

\* the response of that step
Answer == txs'[awaiting].response

\* C11: an ENQUIRE response of fewer than 4 bytes rejects start() with
\* 'Invalid Response to ENQ'; the ENQUIRE is not transmitted again and stays
\* the only command of the session (no second ENQUIRE, no SELECT), also in
\* every later step of the session.
C11_ShortEnqFatal ==
  [][/\ (pc = "enq" /\ Answered /\ Len(Answer) < 4) =>
          /\ result' = [state |-> "rejected", err |-> Err("Invalid Response to ENQ")]
          /\ Len(txs') = 1
          /\ txs'[1].sent = txs[1].sent
     /\ (result.err = Err("Invalid Response to ENQ") /\ sessions' = sessions) =>
          /\ result' = result
          /\ Len(txs') = 1
          /\ txs'[1].op = BL_OP_ENQUIRE
          /\ txs'[1].sent = txs[1].sent
    ]_vars

\* the first ENQUIRE attempt was answered with 2 bytes and start() rejected
C11_Witness ==
  /\ result = [state |-> "rejected", err |-> Err("Invalid Response to ENQ")]
  /\ Len(txs) = 1
  /\ txs[1].sent = 1
  /\ Len(txs[1].response) = 2

\* start() was rejected because a status listener aborted the session in the
\* step: the command that followed was not handed to the transport
AbortedInStep ==
  /\ result' = [state |-> "rejected", err |-> Err("Aborted by user")]
  /\ Len(txs') = Len(txs)

\* C12: an ENQUIRE response of at least 4 bytes whose major version is not 2,
\* 3 or 4 rejects start() with 'Unsupported bootloader version' and the
\* ENQUIRE stays the only command of the session; with major version 2, 3 or
\* 4 the session goes on to SELECT (at once or after the select delay)
\* whatever the minor version, unless a status listener aborted it.
C12_VersionGate ==
  [][/\ (pc = "enq" /\ Answered /\ Len(Answer) >= 4) =>
          IF At(Answer, 1) \notin {2, 3, 4}
            THEN /\ result' = [state |-> "rejected", err |-> Err("Unsupported bootloader version")]
                 /\ Len(txs') = 1
            ELSE \/ /\ result'.state = "pending"
                    /\ pc' \in {"sel", "delay"}
                    /\ pc' = "sel" => (Len(txs') = 2 /\ txs'[2].op = BL_OP_SELECT)
                    /\ me'.targetVersion = <<At(Answer, 1), At(Answer, 2)>>
                 \/ AbortedInStep
     /\ (result.err = Err("Unsupported bootloader version") /\ sessions' = sessions) =>
          (result' = result /\ Len(txs') = 1 /\ txs'[1].op = BL_OP_ENQUIRE)
    ]_vars

\* a device of major version 5 was refused
C12_Witness ==
  /\ result = [state |-> "rejected", err |-> Err("Unsupported bootloader version")]
  /\ Len(txs) = 1
  /\ At(txs[1].response, 1) = 5

\* C13: when the ENQUIRE response reports fewer spaces than the index of the
\* selected space + 1, start() is rejected and no SELECT is issued.
C13_SpaceCountGate ==
  [][(/\ pc = "enq"
      /\ Answered
      /\ ValidEnq(Answer)
      /\ At(Answer, 3) < config.space + 1) =>
        (result'.state = "rejected" /\ Len(txs') = 1)
    ]_vars

\* C14: with crc = response[0] * 256 + response[1] of the VERIFY response,
\* FINISH is issued when crc equals computedCrc (unless a status listener
\* aborted the session), and otherwise start() is rejected with 'Incorrect
\* Checksum' naming crc, while computedCrc is the value expected; no FINISH
\* is issued then or later in the session, and a FINISH always follows a
\* VERIFY answered with computedCrc.
C14_VerifyGate ==
  [][/\ (pc = "verify" /\ Answered) =>
          LET crc == (At(Answer, 0) * 256) + At(Answer, 1)
          IN /\ me'.computedCrc = me.computedCrc
             /\ IF crc = me.computedCrc
                  THEN \/ /\ result'.state = "pending"
                          /\ pc' = "finish"
                          /\ Len(txs') = Len(txs) + 1
                          /\ txs'[Len(txs')].op = BL_OP_FINISH
                       \/ AbortedInStep
                  ELSE /\ result' = [state |-> "rejected",
                                     err |-> ErrArg("Incorrect Checksum: Received ", crc)]
                       /\ Len(txs') = Len(txs)
     /\ (result.err.msg = "Incorrect Checksum: Received " /\ sessions' = sessions) =>
          (result' = result /\ txs' = txs)
     /\ \A t \in 1 .. Len(txs') :
          txs'[t].op = BL_OP_FINISH =>
            /\ t > 1
            /\ txs'[t - 1].op = BL_OP_VERIFY
            /\ (At(txs'[t - 1].response, 0) * 256) + At(txs'[t - 1].response, 1)
                 = me'.computedCrc
    ]_vars

\* the device reported a checksum other than the one computed from the file
C14_Witness ==
  /\ result.state = "rejected"
  /\ result.err.msg = "Incorrect Checksum: Received "
  /\ result.err.arg # me.computedCrc
  /\ me.computedCrc > 0
  /\ txs[Len(txs)].op = BL_OP_VERIFY

\* C15: a response to ERASE, to a DATA or to FINISH whose byte 0 is not ACK
\* rejects start() with the error of that phase ('Erase command was rejected
\* by the device', 'Unexpected response while writing data: ' and the byte,
\* 'FINISH Command failed') and no command is issued in that step; once
\* start() is rejected it stays rejected and no command is issued until the
\* next start().
C15_RejectionTerminal ==
  [][/\ (pc = "erase" /\ Answered /\ At(Answer, 0) # BL_OP_ACK) =>
          /\ result' = [state |-> "rejected",
                        err |-> Err("Erase command was rejected by the device")]
          /\ Len(txs') = Len(txs)
     /\ (pc = "data" /\ Answered /\ At(Answer, 0) # BL_OP_ACK) =>
          /\ result' = [state |-> "rejected",
                        err |-> ErrArg("Unexpected response while writing data: ", At(Answer, 0))]
          /\ Len(txs') = Len(txs)
          /\ me'.blocksCompleted = me.blocksCompleted
     /\ (pc = "finish" /\ Answered /\ At(Answer, 0) # BL_OP_ACK) =>
          /\ result' = [state |-> "rejected", err |-> Err("FINISH Command failed")]
          /\ Len(txs') = Len(txs)
     /\ (result.state = "rejected" /\ sessions' = sessions) =>
          /\ result' = result
          /\ Len(txs') = Len(txs)
          /\ \A t \in 1 .. Len(txs) : txs'[t].sent = txs[t].sent
    ]_vars

\* the device rejected the second DATA command
C15_Witness ==
  /\ result = [state |-> "rejected",
               err |-> ErrArg("Unexpected response while writing data: ", BL_OP_NACK)]
  /\ Len(txs) = 5
  /\ txs[4].op = BL_OP_DATA
  /\ txs[5].op = BL_OP_DATA

\* the answer to the outstanding DATA command is an ACK that echoes another
\* address than the one of the block sent
EchoMismatch ==
  /\ pc = "data"
  /\ Answered
  /\ At(Answer, 0) = BL_OP_ACK
  /\ \/ At(txs[awaiting].data, 2) # At(Answer, 3)
     \/ At(txs[awaiting].data, 3) # At(Answer, 4)

\* C16: when blScalarVersion >= 0x0401, an ACK of a DATA command whose bytes
\* 3 and 4 differ from bytes 2 and 3 of the block sent rejects start() with
\* 'Incorrect Block Acknowledgement', nothing is sent again and
\* blocksCompleted is not incremented; when blScalarVersion < 0x0401 the ACK
\* alone completes the block.
C16_SequenceCheck ==
  [][/\ (EchoMismatch /\ me.blScalarVersion >= 1025) =>
          /\ result' = [state |-> "rejected",
                        err |-> Err("Incorrect Block Acknowledgement")]
          /\ Len(txs') = Len(txs)
          /\ me'.blocksCompleted = me.blocksCompleted
     /\ (EchoMismatch /\ me.blScalarVersion < 1025) =>
          /\ me'.blocksCompleted = me.blocksCompleted + 1
          /\ \/ result'.state = "pending"
             \/ AbortedInStep
    ]_vars

\* status 'Sending...' was emitted in the session: sendBlocks() has run
Sending == \E i \in 1 .. Len(status) : status[i] = "Sending..."

\* the DATA transactions of the log whose answer sendAppBlock() accepted
AcceptedData ==
  {t \in 1 .. Len(txs) :
     /\ txs[t].op = BL_OP_DATA
     /\ txs[t].state = "done"
     /\ At(txs[t].response, 0) = BL_OP_ACK
     /\ \/ me.blScalarVersion < 1025
        \/ /\ At(txs[t].data, 2) = At(txs[t].response, 3)
           /\ At(txs[t].data, 3) = At(txs[t].response, 4)}

\* C17 as stated: in every state where both counters have a value,
\* 0 <= blocksCompleted <= totalBlocks.
C17_CountersBounded ==
  (me.blocksCompleted # Undefined /\ me.totalBlocks # Undefined) =>
    (0 <= me.blocksCompleted /\ me.blocksCompleted <= me.totalBlocks)

\* C17, amended: from 'Sending...' to the end of the session, totalBlocks is
\* the length of flashBlocks, blocksCompleted is the number of DATA
\* acknowledgements accepted and of progress events emitted, and
\* 0 <= blocksCompleted <= totalBlocks; the n-th progress event of a session
\* is 100 * n / totalBlocks with 0 < n <= totalBlocks (strictly increasing,
\* in (0, 100]); before 'Sending...' no progress is emitted; a resolved
\* session has emitted one progress event per entry of flashBlocks, the last
\* being 100.
C17_Progress ==
  LET total == Len(me.flashBlocks)
  IN /\ Sending =>
          /\ me.totalBlocks = total
          /\ me.blocksCompleted = Cardinality(AcceptedData)
          /\ me.blocksCompleted = Len(progress)
          /\ 0 <= me.blocksCompleted
          /\ me.blocksCompleted <= me.totalBlocks
     /\ ~Sending => progress = <<>>
     /\ \A n \in 1 .. Len(progress) : progress[n] = <<n, total>> /\ n <= total
     /\ result.state = "resolved" => Len(progress) = total

\* a session of two blocks resolved: progress 50, then 100
C17_Witness ==
  /\ result.state = "resolved"
  /\ progress = << <<1, 2>>, <<2, 2>> >>
  /\ me.blocksCompleted = 2

\* no command of the flashing phases is in the log of the session
NoFlashCommands ==
  \A t \in 1 .. Len(txs) :
     txs[t].op \notin {BL_OP_ERASE, BL_OP_DATA, BL_OP_VERIFY, BL_OP_FINISH}

\* the files whose import must fail: unreadable, without END_OF_FILE record,
\* with an invalid line, with an unhandled or unknown record type
FailingFiles ==
  {f \in FileContents :
     \/ ~f.readable
     \/ \A i \in 1 .. Len(f.lines) : f.lines[i] # eofLine
     \/ \E i \in 1 .. Len(f.lines) :
          f.lines[i] \in {badSumLine,
                          recordLine(0, START_LINEAR_ADDR, <<0, 0, 0, 0>>),
                          recordLine(0, START_LINEAR_ADDR + 1, <<>>)}}

\* C18: while the file is being loaded, loadFile() rejects for every failing
\* file it may be given; when the loader promise
\* is rejected, start() is rejected and no ERASE, DATA, VERIFY or FINISH is
\* in the log of the session; a session whose source is neither a path nor
\* imported never gets to those commands and never resolves; an ERASE is in
\* the log only when the loader was fulfilled and the import went through
\* (every block counted has its payload in flashBlocks).
C18_NoEraseAfterFailedImport ==
  /\ pc = "import" =>
        \A f \in FailingFiles : ~loadFile(NewHexFile, f, me.space.hexBlock).settled.ok
  /\ loader.state = "rejected" => (result.state = "rejected" /\ NoFlashCommands)
  /\ (sessions > 0 /\ loader.state = "none") =>
        (NoFlashCommands /\ result.state # "resolved")
  /\ ~NoFlashCommands =>
        /\ loader.state = "fulfilled"
        /\ me.totalBlocks = Len(me.flashBlocks)

\* the import of a file without END_OF_FILE record failed after the SELECT
C18_Witness ==
  /\ loader.state = "rejected" /\ loader.err = Err("Incomplete file")
  /\ result = [state |-> "rejected", err |-> Err("Incomplete file")]
  /\ Len(txs) = 2
  /\ txs[2].op = BL_OP_SELECT
  /\ txs[2].state = "done"

\* C19: a session whose source is a Readable stream goes on from the SELECT
\* response as a session whose source is a path does: the file is loaded
\* (the import is pending), and the session is not failed by the source.
C19_StreamAsPath ==
  [][(/\ pc = "sel"
      /\ Answered
      /\ Len(Answer) > 5
      /\ config.file.kind \in {"path", "stream"}) =>
        /\ pc' = "import"
        /\ result'.state = "pending"
        /\ Len(txs') = Len(txs)
    ]_vars

\* C20: with a space that excludes block ranges, a file that was loaded is
\* imported without the excluded blocks and the session goes on to ERASE
\* (or start() rejects with 'Aborted by user' when abort() was called): every
\* block counted has its payload in flashBlocks and the import does not fail.
C20_Exclusion ==
  [][(/\ pc = "import"
      /\ me.space.excludeBlocks.kind = "array"
      /\ loader'.state = "fulfilled") =>
        /\ me'.totalBlocks = Len(me'.flashBlocks)
        /\ \/ pc' = "erase" /\ result'.state = "pending" /\ Len(txs') = Len(txs) + 1
           \/ AbortedInStep
    ]_vars

\* the timeout the selected space configures for the phase of a command
PhaseTimeout(op) ==
  CASE op = BL_OP_SELECT -> me.space.selectTimeout
    [] op = BL_OP_ERASE -> me.space.eraseTimeout
    [] op = BL_OP_DATA -> me.space.dataTimeout
    [] op = BL_OP_VERIFY -> me.space.verifyTimeout
    [] op = BL_OP_FINISH -> me.space.finishTimeout
    [] OTHER -> me.target.target.enquireTimeout

\* C21: every command of a session is handed to the transport with the
\* timeout of its phase: SELECT with selectTimeout of the selected space,
\* ERASE with eraseTimeout, DATA with dataTimeout, VERIFY with verifyTimeout,
\* FINISH with finishTimeout.
C21_PhaseTimeouts ==
  \A t \in 1 .. Len(txs) : txs[t].timeout = PhaseTimeout(txs[t].op)

\* C22: SELECT, ERASE, VERIFY and FINISH are each transmitted at most once
\* in a session; ENQUIRE is transmitted again at most enquireRetries times
\* and a DATA command at most dataRetries times.
C22_SingleShot ==
  \A t \in 1 .. Len(txs) :
     /\ txs[t].op \in {BL_OP_SELECT, BL_OP_ERASE, BL_OP_VERIFY, BL_OP_FINISH} =>
          /\ txs[t].sent = 1
          /\ \A u \in 1 .. Len(txs) : txs[u].op = txs[t].op => u = t
     /\ txs[t].op = BL_OP_ENQUIRE => txs[t].sent <= 1 + me.target.target.enquireRetries
     /\ txs[t].op = BL_OP_DATA => txs[t].sent <= 1 + me.space.dataRetries

\* the phases whose timeout a space carries
PhaseTimeoutKeys ==
  {"selectTimeout", "eraseTimeout", "dataTimeout", "verifyTimeout", "finishTimeout"}

\* C23: after a target was constructed with a space, each phase timeout of
\* the space is the value given for the space when one was given, and
\* otherwise the value configured on the target (me.target), whatever class
\* the space was built with.
C23_SpaceOverridesTarget ==
  built.phase = "target" =>
    \A k \in PhaseTimeoutKeys :
       built.space.timing[k] = IF built.spaceGiven[k] # Undefined
                                 THEN built.spaceGiven[k]
                                 ELSE TARGET_DEFAULTS[k]

\* C24: whenever the promise of start() is settled, resolved or rejected,
\* the list me.transactions is empty and every transaction of the session
\* has completed at the transport (none is waiting for a response or for the
\* completion of its cancellation).
C24_NoTransactionLeak ==
  result.state \in {"resolved", "rejected"} =>
    /\ me.transactions = <<>>
    /\ awaiting = 0
    /\ \A t \in 1 .. Len(txs) : txs[t].state = "done"

\* start() was rejected after abort() cancelled the outstanding DATA command
C24_Witness ==
  /\ result.state = "rejected"
  /\ me.transactions = <<>>
  /\ Len(txs) >= 4
  /\ txs[Len(txs)].op = BL_OP_DATA
  /\ txs[Len(txs)].cancelCalls = 1
  /\ txs[Len(txs)].state = "done"

RECURSIVE BigEndian(_, _, _)
\* the unsigned big-endian value of the n bytes of a response from index i
BigEndian(response, i, n) ==
  IF n = 0 THEN 0 ELSE (BigEndian(response, i, n - 1) * 256) + response[i + n]

\* C25: a SELECT response of more than 5 bytes is decoded as
\* blockSize = resp[0]*256 + resp[1]; with major version 2 or 3, appStart is
\* the 32-bit big-endian value at bytes 2..5 and appEnd the one at bytes
\* 6..9; with major version 4, appStart = (resp[2]*256 + resp[3]) * blockSize
\* and appEnd = (resp[4]*256 + resp[5]) * blockSize; in each case appStart
\* and appEnd are non-negative integers afterwards.
C25_SelectDecoding ==
  [][(pc = "sel" /\ Answered /\ Len(Answer) > 5) =>
       /\ me'.blockSize = BigEndian(Answer, 0, 2)
       /\ me'.appStart >= 0
       /\ me'.appEnd >= 0
       /\ me.targetVersion[1] < 4 =>
            /\ me'.appStart = BigEndian(Answer, 2, 4)
            /\ Len(Answer) >= 10 => me'.appEnd = BigEndian(Answer, 6, 4)
       /\ me.targetVersion[1] >= 4 =>
            /\ me'.appStart = BigEndian(Answer, 2, 2) * me'.blockSize
            /\ me'.appEnd = BigEndian(Answer, 4, 2) * me'.blockSize
    ]_vars

\* C26: a SELECT response of fewer than 6 bytes rejects start() with
\* 'Invalid response to Select'; the file is not loaded, and from then on no
\* command is issued in the session (no ERASE, DATA, VERIFY or FINISH).
C26_ShortSelectFatal ==
  [][/\ (pc = "sel" /\ Answered /\ Len(Answer) < 6) =>
          /\ result' = [state |-> "rejected", err |-> Err("Invalid response to Select")]
          /\ loader'.state = "none"
          /\ Len(txs') = 2
          /\ status' = Append(status, "Aborted")
     /\ (result.err = Err("Invalid response to Select") /\ sessions' = sessions) =>
          /\ result' = result
          /\ loader'.state = "none"
          /\ Len(txs') = 2
          /\ txs'[2].op = BL_OP_SELECT
    ]_vars

\* start() was rejected for a SELECT response of two bytes
C26_Witness ==
  /\ result = [state |-> "rejected", err |-> Err("Invalid response to Select")]
  /\ Len(txs) = 2
  /\ Len(txs[2].response) = 2
  /\ loader.state = "none"

\* the block store after the load filter of the space, as importFile() has it
FilteredBlocks ==
  IF me.space.loadFilter # "undefined" THEN callLoadFilter(me.space, loader.blocks)
  ELSE loader.blocks

\* the checksum of the space over the application range of a block store
LocalCrc(blocks) ==
  callChecksum(me.space, JsSub(me.appStart, me.space.dataOffset),
               JsSub(me.appEnd, me.space.dataOffset), me.space.hexBlock, blocks)

ErasePresent == \E t \in 1 .. Len(txs) : txs[t].op = BL_OP_ERASE

\* C27: once the file is loaded, computedCrc is the checksum of the space over
\* [appStart - dataOffset, appEnd - dataOffset) of the block store after the
\* load filter, and it is the value the import gives with skipEmptyBlocks
\* set the other way; an ERASE is in the log only when the file was loaded,
\* the checksum taken and flashBlocks built by the range and empty-block
\* filter from the filtered store.
C27_ImportOrdering ==
  /\ loader.state = "fulfilled" =>
       /\ me.computedCrc = LocalCrc(FilteredBlocks)
       /\ me.computedCrc =
            importThen([World EXCEPT !.me.space.skipEmptyBlocks = ~@], loader.blocks).me.computedCrc
  /\ ErasePresent =>
       /\ loader.state = "fulfilled"
       /\ me.flashBlocks =
            forEachBlock([World EXCEPT !.me.flashBlocks = <<>>, !.me.totalBlocks = 0],
                         FilteredBlocks, {i \in DOMAIN FilteredBlocks : i >= 0}).me.flashBlocks
       /\ me.totalBlocks = Len(me.flashBlocks)

\* ERASE was issued for a space that skips empty blocks and a file whose
\* block 0 is empty: the checksum covers the block, flashBlocks leaves it out
C27_Witness ==
  /\ ErasePresent
  /\ me.space.skipEmptyBlocks
  /\ 0 \in DOMAIN loader.blocks
  /\ callBlockIsEmpty(me.space, loader.blocks[0])
  /\ me.flashBlocks = <<>>
  /\ me.computedCrc = LocalCrc(loader.blocks)
  /\ me.computedCrc # 65535

\* the natural address range of block i of the selected space
BlockFirst(i) == ((i * me.space.hexBlock) \div me.space.addressing) + me.space.dataOffset
BlockLast(i) ==
  ((((i + 1) * me.space.hexBlock) \div me.space.addressing) - me.space.addressing)
  + me.space.dataOffset

\* the blocks of the filtered store that are present, lie inside
\* [appStart, appEnd] and, if skipEmptyBlocks is set, are not empty
Selected ==
  {i \in DOMAIN FilteredBlocks :
     /\ i >= 0
     /\ FilteredBlocks[i].defined
     /\ me.appEnd # NaN
     /\ BlockFirst(i) >= me.appStart
     /\ BlockLast(i) <= me.appEnd
     /\ me.space.skipEmptyBlocks => ~callBlockIsEmpty(me.space, FilteredBlocks[i])}

RECURSIVE Payloads(_)
\* the payloads of the blocks of a set of indices, in ascending order
Payloads(indices) ==
  IF indices = {} THEN <<>>
  ELSE LET i == CHOOSE k \in indices : \A j \in indices : k <= j
       IN <<callSendFilter(me.space, i, FilteredBlocks[i].bytes,
                           me.space.addressing, me.space.dataOffset)>>
          \o Payloads(indices \ {i})

\* the import threw while it built flashBlocks
ImportThrew ==
  /\ result.state = "rejected"
  /\ result.err = Err("TypeError: Cannot read properties of undefined")

\* C28: when the file is loaded and the import went through, flashBlocks is
\* exactly the sendFilter payloads of the present blocks whose address range
\* lies inside [appStart, appEnd] and which, with skipEmptyBlocks set, are not
\* empty, in ascending order of the block index, and totalBlocks is its length.
C28_BlockSelection ==
  (loader.state = "fulfilled" /\ ~ImportThrew) =>
    /\ me.flashBlocks = Payloads(Selected)
    /\ me.totalBlocks = Len(me.flashBlocks)

\* the sparse file is loaded for a PIC24 space: block 0 is selected, block 5
\* lies past the application and is not
C28_Witness ==
  /\ loader.state = "fulfilled"
  /\ ErasePresent
  /\ me.space.addressing = 2
  /\ DOMAIN FilteredBlocks = {0, 5}
  /\ Selected = {0}
  /\ Len(me.flashBlocks) = 1
  /\ me.flashBlocks[1] = <<0, 0, 0, 0, EMPTY_VALUE, EMPTY_VALUE, EMPTY_VALUE>>

\* the line read last, trimmed, and what the line handler made of it
LastLine == reader.last.line
LastParsed == reader.last.parsed

\* every character after the first is a hex digit
HexOnly(line) == \A k \in 2 .. Len(line) : IsHexDigit(line[k])

\* the bytes written after the first character of a line
DecodedBytes(line) == hexToBytes(SubSeq(line, 2, Len(line)))

\* at least 5 bytes, the count is the number of data bytes, the sum is 0
ValidRecord(line) ==
  /\ HexOnly(line)
  /\ LET b == DecodedBytes(line)
     IN /\ Len(b) >= 5
        /\ b[1] = Len(b) - 5
        /\ (sumOf(b) % 256) = 0

\* C29: a line that begins with ':' is accepted iff the bytes after the first
\* character number at least 5, byte 0 is the number of data bytes and the
\* sum of all bytes is 0 modulo 256; the record then has address =
\* byte1 * 256 + byte2, type = byte3 and the data bytes; any other line is
\* counted as an error that carries its 1-based line number (the first error
\* is the one reported, unless the stream fails), and a load with an error is
\* rejected.
C29_RecordValidation ==
  /\ (reader.last.read /\ Head(LastLine) = Colon) =>
       /\ LastParsed.ok <=> ValidRecord(LastLine)
       /\ LastParsed.ok =>
            LET b == DecodedBytes(LastLine)
            IN LastParsed.record = [count |-> b[1], address |-> (b[2] * 256) + b[3],
                                    type |-> b[4], data |-> SubSeq(b, 5, Len(b) - 1)]
       /\ ~LastParsed.ok =>
            /\ reader.st.errors > 0
            /\ LastParsed.err.arg = reader.st.hex.linesInFile
            /\ (reader.st.errors = 1 /\ reader.st.errorText # Err("File read error")) =>
                 reader.st.errorText = LastParsed.err
  /\ (reader.phase = "closed" /\ reader.st.errors > 0) => ~reader.settled.ok

\* C30: a non-empty line whose first character is not ':' is rejected and
\* makes the load fail.
C30_StartCode ==
  (reader.last.read /\ Head(LastLine) # Colon) =>
    /\ ~LastParsed.ok
    /\ reader.st.errors > 0

\* the promise of start() is settled: the handlers the caller attached to it
\* run next, before the .finally of start()
StartSettled == result.state \in {"resolved", "rejected"}

\* C37: isInProgress() is true while the promise of start() is pending, and
\* it is false in every state in which the promise is settled, so that the
\* caller's then/catch handler finds it false.
C37_InProgressTracksSession ==
  /\ result.state = "pending" => me.inProgress
  /\ StartSettled => ~me.inProgress

\* the HexFile object of the reader, before and after a step
HexBefore == reader.st.hex
HexAfter == reader'.st.hex

\* the step is the 'line' handler
LineStep ==
  /\ reader.phase = "open"
  /\ reader'.phase = "open"
  /\ HexAfter.linesInFile = HexBefore.linesInFile + 1

\* the 'line' handler took the line as a record of this type
RecordStep(type) ==
  /\ LineStep
  /\ reader'.last.read
  /\ reader'.last.parsed.ok
  /\ reader'.last.parsed.record.type = type

\* the line is a record written with hex digits only
PlainStep(type) == RecordStep(type) /\ HexOnly(reader'.last.line)

\* C31: loadFile() starts a parse with the latch at 0; an extended linear
\* address record with data [d0, d1] sets the latch to d0 * 2^24 + d1 * 2^16,
\* a non-negative 32-bit value (a multiple of 2^16 whose quotient is
\* d0 * 256 + d1); no other line changes the latch; a DATA record is stored
\* at the latch plus the address of the record.
C31_AddressLatch ==
  [][/\ (reader.phase # "open" /\ reader'.phase = "open") => HexAfter.extendedAddress = 0
     /\ PlainStep(EXT_LINEAR_ADDR) =>
          LET d == reader'.last.parsed.record.data
          IN /\ HexAfter.extendedAddress >= 0
             /\ (HexAfter.extendedAddress % 65536) = 0
             /\ (HexAfter.extendedAddress \div 65536) = (d[1] * 256) + d[2]
     /\ (LineStep /\ ~RecordStep(EXT_LINEAR_ADDR)) =>
          HexAfter.extendedAddress = HexBefore.extendedAddress
     /\ PlainStep(DATA) =>
          LET rec == reader'.last.parsed.record
              eff == HexBefore.extendedAddress + rec.address
              cell == GetBlock(HexAfter.blocks, eff \div HexAfter.blockSize)
          IN /\ cell.defined
             /\ At(cell.bytes, eff % HexAfter.blockSize) = rec.data[1]
    ]_vars

\* C32: every block present in the block store of the HexFile object has
\* length exactly blockSize.
C32_FixedBlockSize ==
  \A i \in DOMAIN reader.st.hex.blocks :
     reader.st.hex.blocks[i].defined =>
       Len(reader.st.hex.blocks[i].bytes) = reader.st.hex.blockSize

\* the byte the block store holds at a byte address (Undefined: none)
ByteAt(blocks, blockSize, address) ==
  LET cell == GetBlock(blocks, address \div blockSize)
  IN IF cell.defined THEN At(cell.bytes, address % blockSize) ELSE Undefined

\* the DATA record of a step, where it goes and what it holds
StepAddress == HexBefore.extendedAddress + reader'.last.parsed.record.address
StepData == reader'.last.parsed.record.data

\* C33: a DATA record with data d at effective address A puts d[k] into block
\* floor((A + k) / blockSize) at offset (A + k) mod blockSize, for every k;
\* every other byte of a block that was present keeps its value, every other
\* byte of a block the record created is 0xFF, no block has bytes beyond
\* blockSize, and no other block appears.
C33_BytePlacement ==
  [][PlainStep(DATA) =>
       LET bs == HexAfter.blockSize
           written == {StepAddress + k : k \in 0 .. (Len(StepData) - 1)}
       IN /\ \A k \in 0 .. (Len(StepData) - 1) :
               ByteAt(HexAfter.blocks, bs, StepAddress + k) = StepData[k + 1]
          /\ \A i \in DOMAIN HexAfter.blocks :
               /\ HexAfter.blocks[i].defined
               /\ Len(HexAfter.blocks[i].bytes) <= bs
               /\ (i \in DOMAIN HexBefore.blocks) \/ (\E a \in written : (a \div bs) = i)
               /\ \A o \in 0 .. (bs - 1) :
                    ((i * bs) + o) \notin written =>
                      ByteAt(HexAfter.blocks, bs, (i * bs) + o) =
                        IF i \in DOMAIN HexBefore.blocks
                          THEN ByteAt(HexBefore.blocks, bs, (i * bs) + o)
                          ELSE EMPTY_VALUE
    ]_vars

\* the record types that are errors: not handled (2, 3, 5) or not known
ErrorText(type) ==
  IF type \in {EXT_SEGMENT_ADDR, START_SEGMENT_ADDR, START_LINEAR_ADDR}
    THEN ErrArg("Unhandled HEX record ", type)
    ELSE ErrArg("Unknown Record type: ", type)

\* C34: a line that is an END_OF_FILE record marks the parse complete; a
\* record of type 2, 3 or 5 or of a type other than 0 .. 5 is an error, as is
\* a line that is no record; records of type 0 and 4 are none; the text of
\* the first error is kept.  When the input ends, the parse resolves with
\* the block store iff END_OF_FILE was read and no line was an error; with an
\* error it fails with the text of the first one, without error and without
\* END_OF_FILE it fails with 'Incomplete file'.
C34_ParseOutcome ==
  [][/\ (LineStep /\ reader'.last.read) =>
          LET p == reader'.last.parsed
              before == reader.st
              after == reader'.st
              failed == ~p.ok \/ p.record.type \notin {DATA, END_OF_FILE, EXT_LINEAR_ADDR}
          IN /\ after.errors = before.errors + (IF failed THEN 1 ELSE 0)
             /\ after.complete = IF p.ok /\ p.record.type = END_OF_FILE THEN 1
                                 ELSE before.complete
             /\ after.errorText =
                  IF before.errors > 0 \/ ~failed THEN before.errorText
                  ELSE IF p.ok THEN ErrorText(p.record.type) ELSE p.err
     /\ (reader.phase = "open" /\ reader'.phase = "closed" /\ reader'.st = reader.st) =>
          LET st == reader.st
              settled == reader'.settled
          IN /\ settled.ok <=> (st.complete = 1 /\ st.errors = 0)
             /\ settled.ok => settled.blocks = st.hex.blocks
             /\ st.errors > 0 =>
                  /\ settled.err.msg = "Error(s) occured reading the HEX file: "
                                         \o st.errorText.msg
                  /\ settled.err.arg = st.errorText.arg
             /\ (st.errors = 0 /\ st.complete = 0) => settled.err = Err("Incomplete file")
    ]_vars

\* a file of a START_LINEAR_ADDR record and a line of four bytes was read to
\* its end: the parse failed with the text of the first of the two errors
C34_Witness ==
  /\ reader.phase = "closed"
  /\ reader.st.errors = 2
  /\ reader.last.read /\ ~reader.last.parsed.ok
  /\ ~reader.settled.ok
  /\ reader.settled.err =
       ErrArg("Error(s) occured reading the HEX file: Unhandled HEX record ", START_LINEAR_ADDR)

\* C38: the defaults object of the library keeps its original values through
\* every construction, and a space that is constructed gets, for every timing
\* key its options leave out, the value the original defaults give.
C38_ConstructionIsolated ==
  /\ TARGET_DEFAULTS = LibraryDefaults
  /\ built.phase = "space" =>
       built.created = newSpace(built.class, built.spaceGiven, LibraryDefaults)

\* the imported block store after the load filter of its space
ImpFiltered ==
  IF imported.space.loadFilter # "undefined"
    THEN callLoadFilter(imported.space, imported.blocks)
    ELSE imported.blocks

\* the natural address range of block i of the imported store
ImpFirst(i) ==
  ((i * imported.space.hexBlock) \div imported.space.addressing) + imported.space.dataOffset
ImpLast(i) ==
  ((((i + 1) * imported.space.hexBlock) \div imported.space.addressing)
     - imported.space.addressing) + imported.space.dataOffset

\* the blocks of the imported store that are to be sent
ImpSelected ==
  {i \in DOMAIN ImpFiltered :
     /\ i >= 0
     /\ ImpFiltered[i].defined
     /\ ImpFirst(i) >= imported.appStart
     /\ ImpLast(i) <= imported.appEnd
     /\ imported.space.skipEmptyBlocks => ~callBlockIsEmpty(imported.space, ImpFiltered[i])}

RECURSIVE Ascending(_)
\* the members of a set of numbers in ascending order
Ascending(indices) ==
  IF indices = {} THEN <<>>
  ELSE LET i == CHOOSE k \in indices : \A j \in indices : k <= j
       IN <<i>> \o Ascending(indices \ {i})

\* the 4-byte big-endian encoding of an address
BigEndian4(address) ==
  <<(address \div 16777216) % 256, (address \div 65536) % 256,
    (address \div 256) % 256, address % 256>>

\* of every four bytes of a block the first three
ThreeOfFour(block) ==
  [n \in 1 .. ((3 * Len(block)) \div 4) |-> block[(4 * ((n - 1) \div 3)) + ((n - 1) % 3) + 1]]

\* C35: the payload of a block begins with the 4-byte big-endian encoding of
\* index * block length / addressing + dataOffset; the simple filter appends
\* the block as it is (4 + block length bytes), the PIC24 filter appends the
\* first three bytes of every four (4 + 3/4 of the block length bytes).
C35_FilterPayload ==
  (imported.done /\ imported.rej = NoErr) =>
    LET order == Ascending(ImpSelected)
    IN /\ Len(imported.flashBlocks) = Len(order)
       /\ \A j \in 1 .. Len(order) :
            LET block == ImpFiltered[order[j]].bytes
                payload == imported.flashBlocks[j]
                address == ((order[j] * Len(block)) \div imported.space.addressing)
                             + imported.space.dataOffset
            IN /\ SubSeq(payload, 1, 4) = BigEndian4(address)
               /\ imported.space.sendFilter = "sendSimpleFilter" =>
                    /\ Len(payload) = 4 + Len(block)
                    /\ SubSeq(payload, 5, Len(payload)) = block
               /\ imported.space.sendFilter = "sendHmiAppFilter" =>
                    /\ Len(payload) = 4 + ((3 * Len(block)) \div 4)
                    /\ SubSeq(payload, 5, Len(payload)) = ThreeOfFour(block)

\* two blocks of two strides were imported for a PIC24 space: the payload of
\* block 1 has the address 4 and six of the eight bytes
C35_Witness ==
  /\ imported.done
  /\ imported.space.sendFilter = "sendHmiAppFilter"
  /\ imported.space.hexBlock = 2 * SessionHexBlock
  /\ Len(imported.flashBlocks) = 2
  /\ imported.flashBlocks[2] = <<0, 0, 0, 4, 33, 34, 35, 37, 38, 39>>

\* the import of a store that holds block 0 only, for a space with the Fill
\* or the NoFill checksum, over the range of that block
OneBlockImport ==
  /\ imported.done
  /\ DOMAIN imported.blocks = {0}
  /\ imported.appStart = 0
  /\ imported.appEnd = imported.space.hexBlock
  /\ imported.space.dataOffset = 0
  /\ imported.space.checksum \in {"computeSimpleChecksum", "computeSimpleChecksumNoFill"}

\* the checksum over the range with the block absent: that of hexBlock bytes
\* of 0xFF for the Fill variant, the seed for the NoFill variant
AbsentCrc ==
  IF imported.space.checksum = "computeSimpleChecksum"
    THEN updateFill(65535, EMPTY_VALUE, imported.space.hexBlock)
    ELSE 65535

\* C36 as stated: blockIsEmpty(b) is true iff the checksum over a range that
\* holds only b equals the checksum over the range with the block absent.
C36_EmptyBlockAgreement ==
  OneBlockImport =>
    (callBlockIsEmpty(imported.space, imported.blocks[0]) <=> imported.computedCrc = AbsentCrc)

\* C36, amended: when blockIsEmpty(b) is true, the checksum over a range that
\* holds only b equals the checksum over the range with the block absent.
C36_EmptyImpliesAgreement ==
  (OneBlockImport /\ callBlockIsEmpty(imported.space, imported.blocks[0])) =>
    imported.computedCrc = AbsentCrc

\* a block of 0xFF only was imported for a space with the Fill checksum
C36_Witness ==
  /\ OneBlockImport
  /\ imported.space.checksum = "computeSimpleChecksum"
  /\ imported.blocks[0].bytes = <<255, 255, 255, 255>>
  /\ callBlockIsEmpty(imported.space, imported.blocks[0])
  /\ imported.computedCrc = 45057

\* C39: for a space with the Fill or the NoFill checksum, every block whose
\* payload is in flashBlocks is among the blocks the checksum walks over
\* [appStart - dataOffset, appEnd - dataOffset) in hexBlock steps.
C39_CrcCoversSent ==
  (/\ imported.done
   /\ imported.rej = NoErr
   /\ imported.space.checksum \in {"computeSimpleChecksum", "computeSimpleChecksumNoFill"}) =>
    /\ Len(imported.flashBlocks) = Cardinality(ImpSelected)
    /\ ImpSelected \subseteq walkedFrom(imported.appStart - imported.space.dataOffset,
                                        imported.appEnd - imported.space.dataOffset,
                                        imported.space.hexBlock)

\* the EEPROM blocks of a PIC16: { start: 0x780, end: 0x787 }
EepromBlocks == 1920 .. 1927

\* C40: for a PIC16TinyBL space constructed without an excludeBlocks option,
\* after the import none of the blocks 0x780 .. 0x787 is left in the block
\* store, and none of them has a payload in flashBlocks.
C40_TinyBLExclusion ==
  (imported.done /\ imported.space.name = "PIC116" /\ imported.rej = NoErr) =>
    /\ \A i \in EepromBlocks : ~GetBlock(ImpFiltered, i).defined
    /\ \A k \in DOMAIN imported.flashBlocks, i \in EepromBlocks :
         SubSeq(imported.flashBlocks[k], 1, 4) # BigEndian4(ImpFirst(i))

====
